---- MODULE Spec2Model ----
(***************************************************************************)
(* Grid-search backtesting engine of the shark repository:                 *)
(*   SuperMegaBacktester          (src/super_mega_backtester.py)           *)
(*   SuperMegaBacktesterFinra     (src/super_mega_backtester_finra.py)     *)
(*   MegaAccumulationBacktestReal (src/mega_accumulation_backtest_real.py) *)
(*   MegaBacktester               (src/mega_backtester.py)                 *)
(* with the loops of BacktestValidator (src/backtest_validator.py) and     *)
(* SignalBacktester (src/signal_backtester.py), and the volume ratio and   *)
(* the probability report of MegaBacktesterDB (src/mega_backtester_db.py)  *)
(* and MegaBacktesterHistorical (src/mega_backtester_historical.py).       *)
(*                                                                         *)
(* Numbers.  The program computes in IEEE doubles; the model keeps every   *)
(* comparison exact by cross-multiplying integers:                         *)
(*   - a price threshold is held in tenths of a percent (5 = 0.5 %),       *)
(*   - a volume threshold is held in tenths (12 = 1.2),                    *)
(*   - a ratio is a record [num, den]; den = 0 is a division by zero, for  *)
(*     which numpy yields inf (num > 0), -inf (num < 0) or nan (num = 0),  *)
(*   - return_pct is held in hundredths of a percent, rounded down; its    *)
(*     sign is exact for the prices used here (Close < 10000).             *)
(* Indices are the program's zero-based indices; TLA+ sequences are        *)
(* one-based, so bar i of the program is data[i + 1].                      *)
(***************************************************************************)
EXTENDS Integers, Sequences, FiniteSets, TLC

VARIABLES
    variant,            \* which of the backtesters runs
    sim,                \* the call under way in the specifications of one call
    universe,           \* ticker -> the CSV file of the ticker
    cfg,                \* position of the four nested configuration loops
    sector_idx,         \* position of the loop over ticker_info.items()
    ticker_idx,         \* position of the loop over the tickers
    all_trades,         \* all_trades / config_trades of the current configuration
    processed_tickers,  \* processed_tickers of the current configuration
    all_results,        \* self.all_results
    pool,               \* self.all_trades of MegaAccumulationBacktestReal / MegaBacktester
    ranked,             \* the sorted table of show_best_* / analyze_mega_results
    visited,            \* number of (configuration, sector, ticker) passes made
    phase               \* where run() is: "tickers", "show", "done"

vars == <<variant, sim, universe, cfg, sector_idx, ticker_idx, all_trades,
          processed_tickers, all_results, pool, ranked, visited, phase>>

orch_vars == <<universe, cfg, sector_idx, ticker_idx, all_trades,
               processed_tickers, all_results, pool, ranked, visited, phase>>

(***************************************************************************)
(* Program constants.                                                      *)
(***************************************************************************)
\* the grids of SuperMegaBacktester.__init__
analysis_windows == <<1, 2, 3, 4, 5>>
holding_periods == <<1, 2, 3, 4, 5, 6, 7>>
volume_thresholds == <<12, 13, 14, 15, 16, 17>>
price_change_thresholds == <<5, 10, 15, 20, 25>>

\* range(15, ...) of SuperMegaBacktester.backtest_configuration
SuperMegaStart == 15
\* "if start_idx >= 10" and iloc[max(0, start_idx-10):start_idx]
BaselineDays == 10

(***************************************************************************)
(* Helpers on sequences of bars.                                           *)
(***************************************************************************)
Min(a, b) == IF a < b THEN a ELSE b
Max(a, b) == IF a > b THEN a ELSE b
Abs(x) == IF x < 0 THEN -x ELSE x

\* data.iloc[lo:hi]: zero-based, half-open, clipped to the frame
iloc(data, lo, hi) == SubSeq(data, Max(lo, 0) + 1, Min(hi, Len(data)))

RECURSIVE SumClose(_)
SumClose(w) == IF w = <<>> THEN 0 ELSE Head(w).Close + SumClose(Tail(w))

RECURSIVE SumCloseSq(_)
SumCloseSq(w) == IF w = <<>> THEN 0 ELSE Head(w).Close * Head(w).Close + SumCloseSq(Tail(w))

RECURSIVE SumVolume(_)
SumVolume(w) == IF w = <<>> THEN 0 ELSE Head(w).Volume + SumVolume(Tail(w))

(***************************************************************************)
(* Window metrics, as exact ratios.                                        *)
(***************************************************************************)
\* (Close.iloc[-1] - Close.iloc[0]) / Close.iloc[0] * 100
price_change(window) ==
    [num |-> (window[Len(window)].Close - window[1].Close) * 100,
     den |-> window[1].Close]

\* price_change > t/10; inf > t is true, nan > t is false
PcGT(pc, t) == IF pc.den > 0 THEN pc.num * 10 > t * pc.den ELSE pc.num > 0
\* price_change < -t/10
PcLT(pc, t) == IF pc.den > 0 THEN pc.num * 10 < (-t) * pc.den ELSE pc.num < 0
\* abs(price_change) < t/20  (price_thresh / 2)
PcAbsLT(pc, t) == pc.den > 0 /\ Abs(pc.num) * 20 < t * pc.den
\* mutant: a price change over a zero first close taken as its numerator
PcAbsLE_ZeroFirstClose(pc, t) == Abs(pc.num) * 10 <= t * pc.den

\* abs(price_change) <= t/10
PcAbsLE(pc, t) == pc.den > 0 /\ Abs(pc.num) * 10 <= t * pc.den

\* total_volume / volume_ma, 1 when fewer than 10 bars precede the window or
\* the baseline mean is 0
volume_ratio(data, start_idx, window) ==
    IF start_idx >= BaselineDays
    THEN LET base == SumVolume(iloc(data, Max(0, start_idx - BaselineDays), start_idx))
         IN IF base > 0
            THEN [num |-> SumVolume(window) * BaselineDays, den |-> Len(window) * base]
            ELSE [num |-> 1, den |-> 1]
    ELSE [num |-> 1, den |-> 1]

\* volume_ratio > tn/td
RatioGT(r, tn, td) == r.num * td > tn * r.den

\* Close.std() / Close.mean() * 100 if Close.mean() > 0 else 0, squared.
\* pandas' std is the sample deviation (ddof = 1): nan for a single bar.
price_volatility(window) ==
    LET n == Len(window)
        S == SumClose(window)
        Q == SumCloseSq(window)
    IN IF S > 0
       THEN IF n < 2
            THEN [nan |-> TRUE, sqnum |-> 0, sqden |-> 1]
            ELSE [nan |-> FALSE, sqnum |-> (n * Q - S * S) * n * 10000,
                  sqden |-> S * S * (n - 1)]
       ELSE [nan |-> FALSE, sqnum |-> 0, sqden |-> 1]

\* price_volatility < k; every comparison with nan is false
VolLT(v, k) == ~v.nan /\ v.sqnum < k * k * v.sqden
VolLE(v, k) == ~v.nan /\ v.sqnum <= k * k * v.sqden

(***************************************************************************)
(* Signal classifiers.  A result is [ok, signal, entry_price]; ok = FALSE  *)
(* is the program's None.                                                  *)
(***************************************************************************)
None == [ok |-> FALSE, signal |-> "None", entry_price |-> 0]

\* mutant: the rules without their test of the volume ratio
SignalAdvanced_NoVolumeTest(vr, pc, vol, volume_thresh, price_thresh) ==
    IF PcGT(pc, price_thresh) /\ VolLT(vol, 4)
    THEN "BUY_STRONG"
    ELSE IF PcAbsLT(pc, price_thresh) /\ VolLT(vol, 3)
    THEN "BUY_MODERATE"
    ELSE IF PcLT(pc, price_thresh) /\ VolLT(vol, 4)
    THEN "SELL_STRONG"
    ELSE "HOLD"

\* the if/elif chain of SuperMegaBacktester.calculate_signal_advanced
SignalAdvanced(vr, pc, vol, volume_thresh, price_thresh) ==
    IF RatioGT(vr, volume_thresh, 10) /\ PcGT(pc, price_thresh) /\ VolLT(vol, 4)
    THEN "BUY_STRONG"
    ELSE IF RatioGT(vr, volume_thresh * 12, 100) /\ PcAbsLT(pc, price_thresh) /\ VolLT(vol, 3)
    THEN "BUY_MODERATE"
    ELSE IF RatioGT(vr, volume_thresh, 10) /\ PcLT(pc, price_thresh) /\ VolLT(vol, 4)
    THEN "SELL_STRONG"
    ELSE IF RatioGT(vr, volume_thresh * 12, 100) /\ PcAbsLT(pc, price_thresh) /\ VolLT(vol, 3)
    THEN "SELL_MODERATE"
    ELSE "HOLD"

calculate_signal_advanced(data, start_idx, analysis_days, volume_thresh, price_thresh) ==
    IF start_idx + analysis_days >= Len(data)
    THEN None
    ELSE LET window == iloc(data, start_idx, start_idx + analysis_days)
         IN IF Len(window) < analysis_days
            THEN None
            ELSE [ok |-> TRUE,
                  signal |-> SignalAdvanced(volume_ratio(data, start_idx, window),
                                            price_change(window),
                                            price_volatility(window),
                                            volume_thresh, price_thresh),
                  entry_price |-> window[Len(window)].Close]

\* the grids of SuperMegaBacktesterFinra.__init__ (analysis windows and holding
\* periods are those of SuperMegaBacktester)
off_exchange_thresholds == <<15, 20, 25, 30, 35, 40>>
price_stability_thresholds == <<5, 10, 15, 20>>

\* the grids of MegaAccumulationBacktestReal.__init__
accum_analysis_windows == <<2, 3, 4, 5>>
accum_off_exchange_thresholds == <<20, 25, 30, 35, 40, 45, 50>>
accum_price_stability_thresholds == <<5, 10, 15, 20, 25>>

RECURSIVE SumOffPct(_)
SumOffPct(w) == IF w = <<>> THEN 0 ELSE Head(w).off_exchange_pct + SumOffPct(Tail(w))

\* price_change > -2 * t/10
PcGTNeg2(pc, t) == IF pc.den > 0 THEN pc.num * 10 > (-2 * t) * pc.den ELSE pc.num > 0

\* mutant: the distribution rule without its floor of twice the threshold
AccumulationSignal_AnyDecline(window, pc, vol, off_exchange_thresh, price_stability_thresh) ==
    LET high_off == SumOffPct(window) >= off_exchange_thresh * Len(window)
        off_exchange_trend ==
            IF Len(window) >= 2
            THEN window[Len(window)].off_exchange_pct - window[1].off_exchange_pct
            ELSE 0
    IN IF high_off /\ PcAbsLE(pc, price_stability_thresh) /\ VolLE(vol, 3)
       THEN IF off_exchange_trend > 0 THEN "ACCUMULATION_STRONG" ELSE "ACCUMULATION_MODERATE"
       ELSE IF high_off /\ PcLT(pc, price_stability_thresh)
       THEN "DISTRIBUTION_STRONG"
       ELSE "HOLD"

\* the if/elif chain of SuperMegaBacktesterFinra.calculate_accumulation_signal
AccumulationSignal(window, pc, vol, off_exchange_thresh, price_stability_thresh) ==
    LET high_off == SumOffPct(window) >= off_exchange_thresh * Len(window)
        off_exchange_trend ==
            IF Len(window) >= 2
            THEN window[Len(window)].off_exchange_pct - window[1].off_exchange_pct
            ELSE 0
    IN IF high_off /\ PcAbsLE(pc, price_stability_thresh) /\ VolLE(vol, 3)
       THEN IF off_exchange_trend > 0 THEN "ACCUMULATION_STRONG" ELSE "ACCUMULATION_MODERATE"
       ELSE IF high_off /\ PcLT(pc, price_stability_thresh)
                        /\ PcGTNeg2(pc, price_stability_thresh)
       THEN "DISTRIBUTION_STRONG"
       ELSE "HOLD"

calculate_accumulation_signal(data, start_idx, analysis_days, off_exchange_thresh, price_stability_thresh) ==
    IF start_idx + analysis_days >= Len(data)
    THEN None
    ELSE LET window == iloc(data, start_idx, start_idx + analysis_days)
         IN IF Len(window) < analysis_days
            THEN None
            ELSE [ok |-> TRUE,
                  signal |-> AccumulationSignal(window, price_change(window),
                                                price_volatility(window),
                                                off_exchange_thresh, price_stability_thresh),
                  entry_price |-> window[Len(window)].Close]

\* MegaAccumulationBacktestReal.detect_accumulation_signal: a signal or None
detect_accumulation_signal(data, start_idx, analysis_days, off_exchange_thresh, price_stability_thresh) ==
    IF start_idx + analysis_days >= Len(data)
    THEN None
    ELSE LET window == iloc(data, start_idx, start_idx + analysis_days)
         IN IF Len(window) < analysis_days
            THEN None
            ELSE IF /\ SumOffPct(window) >= off_exchange_thresh * Len(window)
                    /\ PcAbsLE(price_change(window), price_stability_thresh)
                    /\ VolLE(price_volatility(window), 5)
                 THEN [ok |-> TRUE, signal |-> "ACCUMULATION",
                       entry_price |-> window[Len(window)].Close]
                 ELSE None

\* MegaBacktester: analysis_days=3 of mega_backtest_symbol, holding_days=5 of
\* run_mega_backtest, data.tail(180)
MegaAnalysisDays == 3
MegaHoldingDays == 5
MegaTailDays == 180

RECURSIVE SumOffVolume(_)
SumOffVolume(w) ==
    IF w = <<>> THEN 0 ELSE Head(w).total_off_exchange_volume + SumOffVolume(Tail(w))

RECURSIVE SumMarketVolume(_)
SumMarketVolume(w) ==
    IF w = <<>> THEN 0 ELSE Head(w).total_market_volume + SumMarketVolume(Tail(w))

\* window[window['total_off_exchange_volume'] > 0]
complete_window(data, start_idx, analysis_days) ==
    SelectSeq(iloc(data, start_idx, start_idx + analysis_days),
              LAMBDA bar : bar.total_off_exchange_volume > 0)

\* the if/elif chain of MegaBacktester.calculate_signal_for_window; w is the
\* complete window, of two bars or more
SignalForWindow(w) ==
    LET n == Len(w)
        avg_off == SumOffVolume(w)
        total_volume == SumMarketVolume(w)
        \* off_exchange_pct > k, with off_exchange_pct 0 when total_volume is 0
        OffPctGT(k) == total_volume > 0 /\ avg_off * 100 > k * total_volume
        pc == price_change(w)
        first_off == w[1].total_off_exchange_volume
        last_off == w[n].total_off_exchange_volume
        \* volume_trend > 1.1; a division by zero yields nan or inf
        volume_trend_high ==
            IF total_volume > 0
            THEN w[n].total_market_volume * n * 10 > 11 * total_volume
            ELSE w[n].total_market_volume > 0
    IN IF OffPctGT(35) /\ PcLT(pc, 15)
       THEN IF last_off > first_off THEN "SELL_STRONG" ELSE "SELL_WEAK"
       ELSE IF OffPctGT(40)
       THEN "SELL_MODERATE"
       ELSE IF OffPctGT(25) /\ PcAbsLT(pc, 40) /\ volume_trend_high
       THEN IF last_off * 100 > 105 * first_off THEN "BUY_STRONG" ELSE "BUY_MODERATE"
       ELSE "HOLD"

calculate_signal_for_window(data, start_idx, analysis_days) ==
    IF start_idx + analysis_days >= Len(data)
    THEN None
    ELSE LET w == complete_window(data, start_idx, analysis_days)
         IN IF Len(w) < 2
            THEN None
            ELSE [ok |-> TRUE, signal |-> SignalForWindow(w),
                  entry_price |-> w[Len(w)].Close, entry_date |-> w[Len(w)].date]

(***************************************************************************)
(* Trade simulator: backtest_configuration of the three grid classes and   *)
(* mega_backtest_symbol of MegaBacktester.                                 *)
(* A frame is [bars, fault]: fault = "close" is a Close column that did    *)
(* not parse as numbers, so that the first arithmetic on it raises;        *)
(* fault = "load" is a file that read_csv / to_datetime rejects.           *)
(***************************************************************************)
Variants == {"super_mega", "finra", "accum_real"}
\* the classes that run() can be: the three grid searches and MegaBacktester
Classes == Variants \cup {"mega"}

\* first start index of the loop: range(15, ..), range(10, ..), range(..)
FinraStart == 10
StartIndex(v) ==
    CASE v = "super_mega" -> SuperMegaStart
      [] v = "finra" -> FinraStart
      [] OTHER -> 0

\* mutant: a range that reaches the last start index whose exit bar exists
StopIndex_UpToLastExit(data, analysis_days, holding_days) ==
    Len(data) - holding_days - analysis_days + 1

\* mutant: the holding period forgotten in the loop's range
StopIndex_NoHolding(data, analysis_days, holding_days) == Len(data) - analysis_days

\* end of the loop's range: len(data) - holding_days - analysis_days
StopIndex(data, analysis_days, holding_days) == Len(data) - holding_days - analysis_days

\* sort_values('date'): the default sort is not stable, so bars with equal
\* dates come out in either order (tie = "keep" or "swap").  DateRank is the
\* place of bar i in the sorted frame.
DateRank(bars, i, tie) ==
    1 + Cardinality({j \in 1..Len(bars) :
                        \/ bars[j].date < bars[i].date
                        \/ /\ bars[j].date = bars[i].date
                           /\ IF tie = "keep" THEN j < i ELSE j > i})

SortByDate(bars, tie) ==
    IF \A k \in 1..(Len(bars) - 1) : bars[k].date < bars[k + 1].date
    THEN bars
    ELSE LET rank == SubSeq([i \in 1..Len(bars) |-> DateRank(bars, i, tie)], 1, Len(bars))
         IN [k \in 1..Len(bars) |-> bars[CHOOSE i \in 1..Len(bars) : rank[i] = k]]

\* first line of backtest_configuration: reset_index only in SuperMegaBacktester,
\* sort_values('date').reset_index in the two off-exchange classes
PrepareData(v, bars, tie) == IF v = "super_mega" THEN bars ELSE SortByDate(bars, tie)

Classify(v, data, start_idx, analysis_days, t1, t2) ==
    CASE v = "super_mega" -> calculate_signal_advanced(data, start_idx, analysis_days, t1, t2)
      [] v = "finra" -> calculate_accumulation_signal(data, start_idx, analysis_days, t1, t2)
      [] v = "mega" -> calculate_signal_for_window(data, start_idx, analysis_days)
      [] OTHER -> detect_accumulation_signal(data, start_idx, analysis_days, t1, t2)

\* signal.startswith('BUY') / signal.startswith('ACCUMULATION');
\* MegaAccumulationBacktestReal has one signal and never
\* inverts
ExpectsUp(v, signal) ==
    CASE v \in {"super_mega", "mega"} -> signal \in {"BUY_STRONG", "BUY_MODERATE"}
      [] v = "finra" -> signal \in {"ACCUMULATION_STRONG", "ACCUMULATION_MODERATE"}
      [] OTHER -> TRUE

\* (exit_price - entry_price) / entry_price * 100, in hundredths of a percent
RawReturn(entry_price, exit_price) == ((exit_price - entry_price) * 10000) \div entry_price

\* mutant: the return of a SELL / DISTRIBUTION trade not inverted
return_pct_NoInversion(v, signal, entry_price, exit_price) ==
    RawReturn(entry_price, exit_price)

return_pct(v, signal, entry_price, exit_price) ==
    IF ExpectsUp(v, signal)
    THEN RawReturn(entry_price, exit_price)
    ELSE -RawReturn(entry_price, exit_price)

\* actual_direction = "UP" if exit_price > entry_price else "DOWN";
\* correct = (expected_direction == actual_direction)
correct(v, signal, entry_price, exit_price) ==
    LET expected_direction == IF ExpectsUp(v, signal) THEN "UP" ELSE "DOWN"
        actual_direction == IF exit_price > entry_price THEN "UP" ELSE "DOWN"
    IN expected_direction = actual_direction

\* mutant: a trade entered one bar late when the holding period is odd
Trade_EntryByHolding(v, symbol, data, start_idx, analysis_days, holding_days, t1, t2, sig) ==
    LET entry_idx == start_idx + analysis_days - 1 + (holding_days % 2)
        exit_idx == start_idx + analysis_days - 1 + holding_days
        entry_price == data[entry_idx + 1].Close
        exit_price == data[exit_idx + 1].Close
    IN [symbol |-> symbol, signal |-> sig.signal,
        return_pct |-> IF entry_price = 0 THEN 0
                       ELSE return_pct(v, sig.signal, entry_price, exit_price),
        correct |-> correct(v, sig.signal, entry_price, exit_price),
        entry_price |-> entry_price, exit_price |-> exit_price,
        analysis_days |-> analysis_days, holding_days |-> holding_days,
        t1 |-> t1, t2 |-> t2,
        start_idx |-> start_idx, entry_idx |-> entry_idx, exit_idx |-> exit_idx]

\* the dict appended to trades (MegaAccumulationBacktestReal stores no 'correct').
\* The prices, the configuration and start_idx, entry_idx, exit_idx are kept in
\* every class's trade, beside the program's keys, to state where it came from.
Trade(v, symbol, data, start_idx, analysis_days, holding_days, t1, t2, sig) ==
    LET entry_idx == start_idx + analysis_days - 1
        exit_idx == entry_idx + holding_days
        entry_price == sig.entry_price
        exit_price == data[exit_idx + 1].Close
    IN IF v = "accum_real"
       THEN [symbol |-> symbol, signal |-> sig.signal,
             return_pct |-> return_pct(v, sig.signal, entry_price, exit_price),
             entry_price |-> entry_price, exit_price |-> exit_price,
             analysis_days |-> analysis_days, holding_days |-> holding_days,
             t1 |-> t1, t2 |-> t2,
             start_idx |-> start_idx, entry_idx |-> entry_idx, exit_idx |-> exit_idx]
       ELSE [symbol |-> symbol, signal |-> sig.signal,
             return_pct |-> return_pct(v, sig.signal, entry_price, exit_price),
             correct |-> correct(v, sig.signal, entry_price, exit_price),
             entry_price |-> entry_price, exit_price |-> exit_price,
             analysis_days |-> analysis_days, holding_days |-> holding_days,
             t1 |-> t1, t2 |-> t2,
             start_idx |-> start_idx, entry_idx |-> entry_idx, exit_idx |-> exit_idx]

\* whether the classifier reaches its arithmetic on the Close column: always in
\* the grid classes; in MegaBacktester only past the two early returns
TouchesClose(v, data, start_idx, analysis_days) ==
    \/ v # "mega"
    \/ /\ start_idx + analysis_days < Len(data)
       /\ Len(complete_window(data, start_idx, analysis_days)) >= 2

\* mutant: a pass whose entry bar closes at 0 raises a ZeroDivisionError
Iteration_ZeroEntryRaises(v, symbol, frame, data, start_idx, analysis_days, holding_days, t1, t2) ==
    IF \/ frame.fault = "close" /\ TouchesClose(v, data, start_idx, analysis_days)
       \/ data[start_idx + analysis_days].Close = 0
    THEN [outcome |-> "raise", trades |-> <<>>]
    ELSE LET sig == Classify(v, data, start_idx, analysis_days, t1, t2)
         IN IF ~sig.ok
            THEN [outcome |-> "none", trades |-> <<>>]
            ELSE IF sig.signal = "HOLD"
            THEN [outcome |-> "hold", trades |-> <<>>]
            ELSE IF start_idx + analysis_days - 1 + holding_days >= Len(data)
            THEN [outcome |-> "no_exit", trades |-> <<>>]
            ELSE [outcome |-> "trade",
                  trades |-> <<Trade(v, symbol, data, start_idx, analysis_days,
                                     holding_days, t1, t2, sig)>>]

\* mutant: the loop skips only a None result, not a HOLD signal
Iteration_NoHoldSkip(v, symbol, frame, data, start_idx, analysis_days, holding_days, t1, t2) ==
    IF frame.fault = "close" /\ TouchesClose(v, data, start_idx, analysis_days)
    THEN [outcome |-> "raise", trades |-> <<>>]
    ELSE LET sig == Classify(v, data, start_idx, analysis_days, t1, t2)
         IN IF ~sig.ok
            THEN [outcome |-> "none", trades |-> <<>>]
            ELSE IF start_idx + analysis_days - 1 + holding_days >= Len(data)
            THEN [outcome |-> "no_exit", trades |-> <<>>]
            ELSE [outcome |-> "trade",
                  trades |-> <<Trade(v, symbol, data, start_idx, analysis_days,
                                     holding_days, t1, t2, sig)>>]

\* one pass of the for loop of backtest_configuration
Iteration(v, symbol, frame, data, start_idx, analysis_days, holding_days, t1, t2) ==
    IF frame.fault = "close" /\ TouchesClose(v, data, start_idx, analysis_days)
    THEN [outcome |-> "raise", trades |-> <<>>]
    ELSE LET sig == Classify(v, data, start_idx, analysis_days, t1, t2)
         IN IF ~sig.ok
            THEN [outcome |-> "none", trades |-> <<>>]
            ELSE IF sig.signal = "HOLD"
            THEN [outcome |-> "hold", trades |-> <<>>]
            ELSE IF start_idx + analysis_days - 1 + holding_days >= Len(data)
            THEN [outcome |-> "no_exit", trades |-> <<>>]
            ELSE [outcome |-> "trade",
                  trades |-> <<Trade(v, symbol, data, start_idx, analysis_days,
                                     holding_days, t1, t2, sig)>>]

\* the passes of the for loop, in the order of range(start, stop)
Passes(v, symbol, frame, data, analysis_days, holding_days, t1, t2) ==
    [k \in 1..Max(StopIndex(data, analysis_days, holding_days) - StartIndex(v), 0) |->
        Iteration(v, symbol, frame, data, StartIndex(v) + k - 1, analysis_days,
                  holding_days, t1, t2)]

\* the place of the first pass that raised, Len(passes) + 1 if none did
FirstRaise(passes) ==
    LET raising == {k \in 1..Len(passes) : passes[k].outcome = "raise"}
    IN IF raising = {}
       THEN Len(passes) + 1
       ELSE CHOOSE k \in raising : \A j \in raising : k <= j

\* the trades the passes appended, in their order, up to the pass that raised
\* if one did
Appended(passes) ==
    LET traded == SelectSeq(SubSeq(passes, 1, FirstRaise(passes) - 1),
                            LAMBDA it : it.outcome = "trade")
    IN [k \in 1..Len(traded) |-> traded[k].trades[1]]

\* [raised, trades, appended]: trades is the list the call returns, which a
\* raise loses
Returned(passes) ==
    [raised |-> FirstRaise(passes) <= Len(passes),
     trades |-> IF FirstRaise(passes) <= Len(passes) THEN <<>> ELSE Appended(passes),
     appended |-> Appended(passes)]

backtest_configuration(v, symbol, frame, tie, analysis_days, holding_days, t1, t2) ==
    Returned(SelectSeq(Passes(v, symbol, frame, PrepareData(v, frame.bars, tie),
                              analysis_days, holding_days, t1, t2),
                       LAMBDA it : TRUE))

(***************************************************************************)
(* Input series.  Bar i of a shape, i zero-based:                          *)
(*   flat   constant price, volume and off-exchange share                  *)
(*   rally  rising price on growing volume                                 *)
(*   slide  falling price on growing volume, high off-exchange share       *)
(*   quiet  price within half a percent, off-exchange share rising from 0  *)
(*   calm   price rising by at most half a percent a bar, high             *)
(*          off-exchange share                                             *)
(*   dip    calm, but for bar DipBar, which closes below the bar before it *)
(*   peak   rally up to bar PeakBar, slide after it; volume level up to    *)
(*          bar SurgeBar and growing after it                              *)
(*   stall  slide down to bar StallBar, constant price after it            *)
(*   gap    calm on growing volume, but for bar GapBar, whose close is 0   *)
(* The market volume of a bar is a hundred times its Volume, of which      *)
(* off_exchange_pct percent is off-exchange.                               *)
(***************************************************************************)
Shapes == {"flat", "rally", "slide", "quiet", "calm", "dip", "peak", "stall", "gap"}

PeakBar == 19
StallBar == 20
DipBar == 21
GapBar == 18

ShapeClose(shape, i) ==
    CASE shape = "flat" -> 50
      [] shape = "rally" -> 20 + i
      [] shape = "slide" -> 100 - i
      [] shape = "quiet" -> 200 + (i % 2)
      [] shape = "calm" -> 200 + i
      [] shape = "dip" -> IF i = DipBar THEN 200 + i - 2 ELSE 200 + i
      [] shape = "gap" -> IF i = GapBar THEN 0 ELSE 100 + i
      [] shape = "peak" -> IF i <= PeakBar THEN 20 + i ELSE 20 + 2 * PeakBar - i
      [] OTHER -> IF i <= StallBar THEN 100 - i ELSE 100 - StallBar

\* volume is level up to bar SurgeBar of a peak, and grows from bar 0 elsewhere
SurgeBar == 18
ShapeVolume(shape, i) ==
    CASE shape \in {"flat", "quiet", "calm", "dip"} -> 10
      [] shape = "peak" /\ i < SurgeBar -> 100
      [] OTHER -> (i + 1) * (i + 1)

ShapeOffPct(shape, i) ==
    CASE shape = "flat" -> 10
      [] shape = "quiet" -> i
      [] shape \in {"calm", "dip", "gap"} -> 40 + (i % 3)
      [] OTHER -> 30

\* dates = "ok": strictly increasing; "dup": bar FaultBar repeats the date of
\* the bar before it; "disorder": bars FaultBar - 1 and FaultBar are exchanged
DateKinds == {"ok", "dup", "disorder"}
FaultBar == 17

ShapeDate(dates, i) ==
    CASE dates = "dup" /\ i = FaultBar -> i - 1
      [] dates = "disorder" /\ i = FaultBar -> i - 1
      [] dates = "disorder" /\ i = FaultBar - 1 -> i + 1
      [] OTHER -> i

MakeBars(shape, len, dates) ==
    [k \in 1..len |-> [date |-> ShapeDate(dates, k - 1),
                       Close |-> ShapeClose(shape, k - 1),
                       Volume |-> ShapeVolume(shape, k - 1),
                       off_exchange_pct |-> ShapeOffPct(shape, k - 1),
                       total_off_exchange_volume |->
                           ShapeVolume(shape, k - 1) * ShapeOffPct(shape, k - 1),
                       total_market_volume |-> ShapeVolume(shape, k - 1) * 100]]

MakeFrame(shape, len, dates, fault) ==
    [shape |-> shape, dates |-> dates, fault |-> fault,
     bars |-> SubSeq(MakeBars(shape, len, dates), 1, len)]

\* pd.read_csv(file): the frame a file holds
read_csv(file) == MakeFrame(file.shape, file.len, file.dates, file.fault)

\* the orders in which an unstable sort can leave the bars: one, unless two
\* bars share a date
Ties(frame) == IF frame.dates = "dup" THEN {"keep", "swap"} ELSE {"keep"}

Prefix(seq, n) == SubSeq(seq, 1, Min(n, Len(seq)))
Range(seq) == {seq[k] : k \in 1..Len(seq)}

AnalysisGrid(v) == IF v = "accum_real" THEN accum_analysis_windows ELSE analysis_windows
T1Grid(v) ==
    CASE v = "super_mega" -> volume_thresholds
      [] v = "finra" -> off_exchange_thresholds
      [] OTHER -> accum_off_exchange_thresholds
T2Grid(v) ==
    CASE v = "super_mega" -> price_change_thresholds
      [] v = "finra" -> price_stability_thresholds
      [] OTHER -> accum_price_stability_thresholds

(***************************************************************************)
(* Specification SpecSim: one call of backtest_configuration, one loop     *)
(* pass per step, on a series and a configuration drawn from bounded sets. *)
(***************************************************************************)
\* bounds of SpecSim
MaxLen == 24
ShortLen == 12
SimWindows == 3
SimHoldings == 5
SimThresholds == 2

SimLens == (0..ShortLen) \cup {MaxLen - 1, MaxLen}

SimFrames ==
    {MakeFrame(shape, len, "ok", "none") : shape \in Shapes, len \in SimLens}
    \cup {MakeFrame("rally", len, "ok", "close") : len \in SimLens}

InitSim ==
    /\ variant \in Variants
    /\ \E frame \in SimFrames :
       \E analysis_days \in Range(Prefix(AnalysisGrid(variant), SimWindows)) :
       \E holding_days \in Range(Prefix(holding_periods, SimHoldings)) :
       \E t1 \in Range(Prefix(T1Grid(variant), SimThresholds)) :
       \E t2 \in Range(Prefix(T2Grid(variant), SimThresholds)) :
          sim = [pc |-> "call", symbol |-> "AMD", frame |-> frame,
                 analysis_days |-> analysis_days, holding_days |-> holding_days,
                 t1 |-> t1, t2 |-> t2,
                 data |-> <<>>, start_idx |-> 0, evaluated |-> <<>>, trades |-> <<>>]
    /\ universe = <<>>
    /\ cfg = <<>>
    /\ sector_idx = 0
    /\ ticker_idx = 0
    /\ all_trades = <<>>
    /\ processed_tickers = 0
    /\ all_results = <<>>
    /\ pool = <<>>
    /\ ranked = <<>>
    /\ visited = 0
    /\ phase = "off"

\* data = data[.sort_values('date')].reset_index(drop=True); trades = []
SimEnter ==
    /\ sim.pc = "call"
    /\ \E tie \in Ties(sim.frame) :
          sim' = [sim EXCEPT !.pc = "loop",
                             !.data = PrepareData(variant, sim.frame.bars, tie),
                             !.start_idx = StartIndex(variant)]
    /\ UNCHANGED <<variant, orch_vars>>

\* one pass of the loop body
SimIterate ==
    /\ sim.pc = "loop"
    /\ sim.start_idx < StopIndex(sim.data, sim.analysis_days, sim.holding_days)
    /\ LET it == Iteration(variant, sim.symbol, sim.frame, sim.data, sim.start_idx,
                           sim.analysis_days, sim.holding_days, sim.t1, sim.t2)
       IN sim' = IF it.outcome = "raise"
                 THEN [sim EXCEPT !.pc = "raised",
                                  !.evaluated = Append(@, sim.start_idx)]
                 ELSE [sim EXCEPT !.start_idx = @ + 1,
                                  !.evaluated = Append(@, sim.start_idx),
                                  !.trades = @ \o it.trades]
    /\ UNCHANGED <<variant, orch_vars>>

\* return trades
SimReturn ==
    /\ sim.pc = "loop"
    /\ sim.start_idx >= StopIndex(sim.data, sim.analysis_days, sim.holding_days)
    /\ sim' = [sim EXCEPT !.pc = "returned"]
    /\ UNCHANGED <<variant, orch_vars>>

NextSim == SimEnter \/ SimIterate \/ SimReturn

SpecSim == InitSim /\ [][NextSim]_vars

(***************************************************************************)
(* Specification SpecSignal: one call of a class's signal classifier on a  *)
(* window drawn from bounded sets.  The frame is BaselineDays level bars,  *)
(* the window, and one more bar unless the window is to end the frame; sim *)
(* holds the call and then its result.                                     *)
(***************************************************************************)
\* bounds of SpecSignal
SigWindow == 2
SigThresholds == 2

SigCloses == {0, 100, 101, 103}
SigVolumeProfiles == {"level", "surge"}
SigOffProfiles == {"low", "high", "rising", "falling"}
\* where the window lies: "inside" the frame, on its "last" bars, or one bar
\* "beyond" its end
SigLayouts == {"inside", "last", "beyond"}

SigBar(date, close, volume, off_pct) ==
    [date |-> date, Close |-> close, Volume |-> volume, off_exchange_pct |-> off_pct,
     total_off_exchange_volume |-> volume * off_pct,
     total_market_volume |-> volume * 100]

SigVolume(profile, j) == IF profile = "surge" THEN 20 ELSE 10
SigOffPct(profile, j) ==
    CASE profile = "low" -> 10
      [] profile = "high" -> 45
      [] profile = "rising" -> 40 + 5 * j
      [] OTHER -> 50 - 5 * j

SigData(closes, volumes, offs, layout) ==
    [k \in 1..BaselineDays |-> SigBar(k - 1, 100, 10, 10)]
    \o [j \in 1..Len(closes) |->
           SigBar(BaselineDays + j - 1, closes[j], SigVolume(volumes, j), SigOffPct(offs, j))]
    \o (IF layout = "inside" THEN <<SigBar(BaselineDays + Len(closes), 100, 10, 10)>> ELSE <<>>)

SigWindows == UNION {[1..n -> SigCloses] : n \in 1..SigWindow}

InitSignal ==
    /\ variant \in Classes
    /\ \E closes \in SigWindows :
       \E volumes \in SigVolumeProfiles :
       \E offs \in SigOffProfiles :
       \E layout \in SigLayouts :
       \E t1 \in Range(Prefix(T1Grid(variant), SigThresholds)) :
       \E t2 \in Range(Prefix(T2Grid(variant), SigThresholds)) :
          sim = [pc |-> "signal_call",
                 data |-> SigData(closes, volumes, offs, layout),
                 start_idx |-> IF layout = "beyond" THEN BaselineDays + 1 ELSE BaselineDays,
                 analysis_days |-> Len(closes), t1 |-> t1, t2 |-> t2,
                 result |-> None]
    /\ universe = <<>>
    /\ cfg = <<>>
    /\ sector_idx = 0
    /\ ticker_idx = 0
    /\ all_trades = <<>>
    /\ processed_tickers = 0
    /\ all_results = <<>>
    /\ pool = <<>>
    /\ ranked = <<>>
    /\ visited = 0
    /\ phase = "off"

\* the call of calculate_signal_advanced / calculate_accumulation_signal /
\* detect_accumulation_signal / calculate_signal_for_window and its return
SignalCall ==
    /\ sim.pc = "signal_call"
    /\ sim' = [sim EXCEPT !.pc = "signal_returned",
                          !.result = Classify(variant, sim.data, sim.start_idx,
                                              sim.analysis_days, sim.t1, sim.t2)]
    /\ UNCHANGED <<variant, orch_vars>>

NextSignal == SignalCall

SpecSignal == InitSignal /\ [][NextSignal]_vars

(***************************************************************************)
(* Specification SpecMega: one call of MegaBacktester.mega_backtest_symbol, *)
(* one loop pass per step.  The series rises or falls by one a bar; its    *)
(* off-exchange share is 45 %, but for the bars in holes, which report no  *)
(* off-exchange volume.  all_trades is self.all_trades, to which the loop  *)
(* appends each trade beside its own list symbol_trades (sim.trades).      *)
(***************************************************************************)
\* bounds of SpecMega: the longest series and the most bars without
\* off-exchange volume
MegaLen == 10
MaxHoles == 2

MegaTrends == {"up", "down"}
MegaHoldings == {1, MegaHoldingDays}

MegaBars(len, trend, holes) ==
    [k \in 1..len |->
        [date |-> k - 1,
         Close |-> IF trend = "up" THEN 100 + (k - 1) ELSE 100 - (k - 1),
         Volume |-> 10,
         off_exchange_pct |-> IF (k - 1) \in holes THEN 0 ELSE 45,
         total_off_exchange_volume |-> IF (k - 1) \in holes THEN 0 ELSE 450,
         total_market_volume |-> 1000]]

\* the date of a row whose date cell is empty: pd.to_datetime yields NaT,
\* which sort_values('date') puts after every date
NaT == 9999
\* bound of SpecMega: the rows without a date in a frame of fault "nat"
MegaNatRows == 3

\* fault = "nat": the last MegaNatRows rows of the file have no date
MegaFrames ==
    {[shape |-> trend, dates |-> "ok", fault |-> fault,
      bars |-> SubSeq(MegaBars(len, trend, holes), 1, len)] :
        len \in 0..MegaLen, trend \in MegaTrends, fault \in {"none", "close"},
        holes \in {h \in SUBSET (0..(MegaLen - 1)) : Cardinality(h) <= MaxHoles}}
    \cup
    {[shape |-> trend, dates |-> "ok", fault |-> "nat",
      bars |-> [k \in 1..len |->
                  IF k > len - MegaNatRows
                  THEN [MegaBars(len, trend, {})[k] EXCEPT !.date = NaT]
                  ELSE MegaBars(len, trend, {})[k]]] :
        len \in MegaNatRows..MegaLen, trend \in MegaTrends}

\* the trade dict of mega_backtest_symbol: the keys of Trade, and the two dates
MegaTrade(t, data, sig) ==
    t @@ [entry_date |-> sig.entry_date, exit_date |-> data[t.exit_idx + 1].date]

InitMega ==
    /\ variant = "mega"
    /\ \E frame \in MegaFrames, holding_days \in MegaHoldings :
          sim = [pc |-> "mega_call", symbol |-> "AMD", frame |-> frame,
                 analysis_days |-> MegaAnalysisDays, holding_days |-> holding_days,
                 data |-> <<>>, start_idx |-> 0, evaluated |-> <<>>, trades |-> <<>>]
    /\ universe = <<>>
    /\ cfg = <<>>
    /\ sector_idx = 0
    /\ ticker_idx = 0
    /\ all_trades = <<>>
    /\ processed_tickers = 0
    /\ all_results = <<>>
    /\ pool = <<>>
    /\ ranked = <<>>
    /\ visited = 0
    /\ phase = "off"

\* data = data.sort_values('date').reset_index(drop=True); symbol_trades = []
MegaEnter ==
    /\ sim.pc = "mega_call"
    /\ \E tie \in Ties(sim.frame) :
          sim' = [sim EXCEPT !.pc = "mega_loop",
                             !.data = PrepareData(variant, sim.frame.bars, tie)]
    /\ UNCHANGED <<variant, orch_vars>>

\* one pass of the loop body: symbol_trades.append(trade) and
\* self.all_trades.append(trade); an exception leaves the loop for the
\* except clause of run_mega_backtest
MegaIterate ==
    /\ sim.pc = "mega_loop"
    /\ sim.start_idx < StopIndex(sim.data, MegaAnalysisDays, sim.holding_days)
    /\ LET it == Iteration(variant, sim.symbol, sim.frame, sim.data, sim.start_idx,
                           MegaAnalysisDays, sim.holding_days, 0, 0)
           built == IF it.outcome = "trade"
                    THEN <<MegaTrade(it.trades[1], sim.data,
                                     calculate_signal_for_window(sim.data, sim.start_idx,
                                                                 MegaAnalysisDays))>>
                    ELSE <<>>
           \* 'week_start': entry_date.strftime('%a') raises on NaT
           no_date == built # <<>> /\ built[1].entry_date = NaT
           made == IF no_date THEN <<>> ELSE built
       IN /\ sim' = IF it.outcome = "raise" \/ no_date
                    THEN [sim EXCEPT !.pc = "mega_raised",
                                     !.evaluated = Append(@, sim.start_idx)]
                    ELSE [sim EXCEPT !.start_idx = @ + 1,
                                     !.evaluated = Append(@, sim.start_idx),
                                     !.trades = @ \o made]
          /\ all_trades' = all_trades \o made
    /\ UNCHANGED <<variant, universe, cfg, sector_idx, ticker_idx, processed_tickers,
                   all_results, pool, ranked, visited, phase>>

\* return symbol_trades
MegaReturn ==
    /\ sim.pc = "mega_loop"
    /\ sim.start_idx >= StopIndex(sim.data, MegaAnalysisDays, sim.holding_days)
    /\ sim' = [sim EXCEPT !.pc = "mega_returned"]
    /\ UNCHANGED <<variant, orch_vars>>

NextMega == MegaEnter \/ MegaIterate \/ MegaReturn

SpecMega == InitMega /\ [][NextMega]_vars

(***************************************************************************)
(* Specification SpecPeriod: the loop over one symbol's series in          *)
(* BacktestValidator.test_holding_period (src/backtest_validator.py) and   *)
(* SignalBacktester.backtest_symbol (src/signal_backtester.py), one loop   *)
(* pass per step.  Both classify the three bars before index i and hold    *)
(* from there; the series are those of SpecMega, with holes among the bars *)
(* the loop can look at.  sim.trades is the list results / self.results.   *)
(***************************************************************************)
PeriodClasses == {"validator", "signal_bt"}

\* range(10, len(data) - holding_days), data.iloc[end_idx-3:end_idx]
PeriodStart == 10
PeriodDays == 3

\* bound of SpecPeriod: the longest series
PeriodLen == 16

\* for holding_days in [3, 5, 7]
validator_holdings == <<3, 5, 7>>
PeriodHoldings == {validator_holdings[1], validator_holdings[2]}

PeriodFrames ==
    {[shape |-> trend, dates |-> "ok", fault |-> fault,
      bars |-> SubSeq(MegaBars(len, trend, holes), 1, len)] :
        len \in {0} \cup (PeriodStart..PeriodLen), trend \in MegaTrends,
        fault \in {"none", "close"},
        holes \in {h \in SUBSET ((PeriodStart - PeriodDays)..(PeriodLen - 1)) :
                      Cardinality(h) <= MaxHoles}}

\* index of the last bar of data.iloc[lo:hi] that has off-exchange volume
LastComplete(data, lo, hi) ==
    LET complete == {j \in lo..(hi - 1) : data[j + 1].total_off_exchange_volume > 0}
    IN CHOOSE j \in complete : \A k \in complete : k <= j

\* BacktestValidator.calculate_signal returns the bare label, with SELL and
\* BUY for the two strong signals
ValidatorLabel(signal) ==
    CASE signal = "SELL_STRONG" -> "SELL"
      [] signal = "BUY_STRONG" -> "BUY"
      [] OTHER -> signal

\* calculate_signal / calculate_signal_for_period: None, or the signal with the
\* bar that supplies recent['Close'].iloc[-1]
calculate_signal(v, data, end_idx) ==
    IF end_idx < PeriodDays
    THEN None
    ELSE LET recent == complete_window(data, end_idx - PeriodDays, PeriodDays)
         IN IF Len(recent) < 2
            THEN None
            ELSE [ok |-> TRUE,
                  signal |-> IF v = "validator"
                             THEN ValidatorLabel(SignalForWindow(recent))
                             ELSE SignalForWindow(recent),
                  entry_price |-> recent[Len(recent)].Close,
                  last_idx |-> LastComplete(data, end_idx - PeriodDays, end_idx)]

\* the dict appended to results; entry_idx is the bar that supplies
\* entry_price, exit_idx the bar that supplies exit_price
PeriodTrade(v, symbol, data, i, holding_days, sig) ==
    LET entry_idx == IF v = "validator" THEN i - 1 ELSE sig.last_idx
        exit_idx == i + holding_days
        entry_price == IF v = "validator" THEN data[i].Close ELSE sig.entry_price
        exit_price == data[exit_idx + 1].Close
        up == sig.signal \in {"BUY", "BUY_STRONG", "BUY_MODERATE"}
    IN [symbol |-> symbol, signal |-> sig.signal,
        return_pct |-> IF up THEN RawReturn(entry_price, exit_price)
                       ELSE -RawReturn(entry_price, exit_price),
        correct |-> (up = (exit_price > entry_price)),
        entry_price |-> entry_price, exit_price |-> exit_price,
        entry_date |-> data[i].date, holding_days |-> holding_days,
        start_idx |-> i, entry_idx |-> entry_idx, exit_idx |-> exit_idx]

\* one pass of the loop.  BacktestValidator skips "if signal in ['HOLD']" only,
\* so that a None signal reaches signal.startswith and raises;
\* SignalBacktester skips "if not signal_result or ... == 'HOLD'".
PeriodIteration(v, symbol, frame, data, i, holding_days) ==
    LET sig == calculate_signal(v, data, i)
        arithmetic == Len(complete_window(data, i - PeriodDays, PeriodDays)) >= 2
    IN IF frame.fault = "close" /\ arithmetic
       THEN [outcome |-> "raise", trades |-> <<>>]
       ELSE IF ~sig.ok
       THEN IF v = "validator"
            THEN [outcome |-> "raise", trades |-> <<>>]
            ELSE [outcome |-> "none", trades |-> <<>>]
       ELSE IF sig.signal = "HOLD"
       THEN [outcome |-> "hold", trades |-> <<>>]
       ELSE [outcome |-> "trade",
             trades |-> <<PeriodTrade(v, symbol, data, i, holding_days, sig)>>]

InitPeriod ==
    /\ variant \in PeriodClasses
    /\ \E frame \in PeriodFrames, holding_days \in PeriodHoldings :
          sim = [pc |-> "period_call", symbol |-> "AMD", frame |-> frame,
                 holding_days |-> holding_days,
                 data |-> <<>>, start_idx |-> PeriodStart, evaluated |-> <<>>,
                 trades |-> <<>>]
    /\ universe = <<>>
    /\ cfg = <<>>
    /\ sector_idx = 0
    /\ ticker_idx = 0
    /\ all_trades = <<>>
    /\ processed_tickers = 0
    /\ all_results = <<>>
    /\ pool = <<>>
    /\ ranked = <<>>
    /\ visited = 0
    /\ phase = "off"

\* data = data.sort_values('date').reset_index(drop=True)
PeriodEnter ==
    /\ sim.pc = "period_call"
    /\ \E tie \in Ties(sim.frame) :
          sim' = [sim EXCEPT !.pc = "period_loop",
                             !.data = SortByDate(sim.frame.bars, tie)]
    /\ UNCHANGED <<variant, orch_vars>>

\* one pass of "for i in range(10, len(data) - holding_days)"; an exception
\* leaves the loop for the except clause around it
PeriodIterate ==
    /\ sim.pc = "period_loop"
    /\ sim.start_idx < Len(sim.data) - sim.holding_days
    /\ LET it == PeriodIteration(variant, sim.symbol, sim.frame, sim.data, sim.start_idx,
                                 sim.holding_days)
       IN sim' = IF it.outcome = "raise"
                 THEN [sim EXCEPT !.pc = "period_raised",
                                  !.evaluated = Append(@, sim.start_idx)]
                 ELSE [sim EXCEPT !.start_idx = @ + 1,
                                  !.evaluated = Append(@, sim.start_idx),
                                  !.trades = @ \o it.trades]
    /\ UNCHANGED <<variant, orch_vars>>

\* the end of the loop
PeriodReturn ==
    /\ sim.pc = "period_loop"
    /\ sim.start_idx >= Len(sim.data) - sim.holding_days
    /\ sim' = [sim EXCEPT !.pc = "period_returned"]
    /\ UNCHANGED <<variant, orch_vars>>

NextPeriod == PeriodEnter \/ PeriodIterate \/ PeriodReturn

SpecPeriod == InitPeriod /\ [][NextPeriod]_vars

(***************************************************************************)
(* Specification SpecRatio: the volume-ratio statement of                  *)
(* calculate_signal_advanced (SuperMegaBacktester) and of                  *)
(* calculate_signal_for_window (MegaBacktesterDB, MegaBacktesterHistorical) *)
(* on one window, with start_idx bars before it.  sim holds the call and   *)
(* then the ratio.                                                         *)
(***************************************************************************)
RatioClasses == {"super_mega", "mega_db", "mega_historical"}

\* bounds of SpecRatio: the latest start index and the longest window
RatioStart == 12
RatioWindow == 2

\* volumes of the bars before the window, and of the window's bars
RatioBaselines == {"level", "none", "rising"}
RatioVolumes == {0, 10, 20}

RatioBar(date, volume) ==
    [date |-> date, Close |-> 100, Volume |-> volume, off_exchange_pct |-> 30,
     total_off_exchange_volume |-> volume * 30, total_market_volume |-> volume * 100]

RatioData(start_idx, baseline, volume, analysis_days) ==
    [k \in 1..(start_idx + analysis_days + 1) |->
        IF k <= start_idx
        THEN RatioBar(k - 1, CASE baseline = "level" -> 10
                               [] baseline = "none" -> 0
                               [] OTHER -> k)
        ELSE RatioBar(k - 1, volume)]

\* MegaBacktesterHistorical: volume_ma over data.iloc[max(0, start_idx-10):
\* start_idx] whatever start_idx is; the mean of an empty slice is nan, and
\* nan > 0 is false
volume_ratio_historical(data, start_idx, window) ==
    LET before == iloc(data, Max(0, start_idx - BaselineDays), start_idx)
        base == SumMarketVolume(before)
    IN IF Len(before) > 0 /\ base > 0
       THEN [num |-> SumMarketVolume(window) * Len(before), den |-> Len(window) * base]
       ELSE [num |-> 1, den |-> 1]

InitRatio ==
    /\ variant \in RatioClasses
    /\ \E start_idx \in 0..RatioStart, analysis_days \in 1..RatioWindow,
          baseline \in RatioBaselines, volume \in RatioVolumes :
          sim = [pc |-> "ratio_call",
                 data |-> SubSeq(RatioData(start_idx, baseline, volume, analysis_days), 1,
                                 start_idx + analysis_days + 1),
                 start_idx |-> start_idx, analysis_days |-> analysis_days,
                 volume_ratio |-> [num |-> 0, den |-> 0]]
    /\ universe = <<>>
    /\ cfg = <<>>
    /\ sector_idx = 0
    /\ ticker_idx = 0
    /\ all_trades = <<>>
    /\ processed_tickers = 0
    /\ all_results = <<>>
    /\ pool = <<>>
    /\ ranked = <<>>
    /\ visited = 0
    /\ phase = "off"

\* volume_ratio = total_volume / volume_ma ...
RatioCall ==
    /\ sim.pc = "ratio_call"
    /\ LET window == iloc(sim.data, sim.start_idx, sim.start_idx + sim.analysis_days)
       IN sim' = [sim EXCEPT !.pc = "ratio_returned",
                             !.volume_ratio =
                                 IF variant = "mega_historical"
                                 THEN volume_ratio_historical(sim.data, sim.start_idx, window)
                                 ELSE volume_ratio(sim.data, sim.start_idx, window)]
    /\ UNCHANGED <<variant, orch_vars>>

NextRatio == RatioCall

SpecRatio == InitRatio /\ [][NextRatio]_vars

(***************************************************************************)
(* Grid-search orchestrator: test_all_configurations,                      *)
(* test_all_accumulation_configs and run_mega_backtest, with the           *)
(* aggregation that follows them.                                          *)
(***************************************************************************)
\* ticker_info / ticker_list, cut to the first tickers of each list; for
\* MegaBacktester the symbols of the files glob() can list, in its order
ticker_info(v) ==
    IF v = "super_mega"
    THEN <<[sector |-> "TECH", tickers |-> <<"AMD", "NVDA">>],
           [sector |-> "NON_TECH", tickers |-> <<"TLN">>]>>
    ELSE <<[sector |-> "ALL", tickers |-> <<"AMD", "TLN">>]>>

\* "if len(data) > 180: data = data.tail(180)"
TailFrame(v, frame) ==
    IF v = "mega" /\ Len(frame.bars) > MegaTailDays
    THEN [frame EXCEPT !.bars = SubSeq(@, Len(@) - MegaTailDays + 1, Len(@))]
    ELSE frame

Tickers(v) == UNION {Range(ticker_info(v)[k].tickers) : k \in 1..Len(ticker_info(v))}

\* "if len(data) < 30: continue" / "if len(data) < 20: continue"
MinRows(v) == IF v = "super_mega" THEN 30 ELSE 20
\* "if len(all_trades) >= 10"
MinConfigTrades == 10
\* "if len(signal_trades) < 5: continue"
MinSignalTrades == 5
\* "config_results['trade_count'] >= 50"
MinAccumTrades == 50

\* a loop body that counts a ticker only when its backtest returned a trade
RunTicker_CountsTraders(v, ticker, file, analysis_days, holding_days, t1, t2) ==
    IF ~file.exists
    THEN [outcome |-> "missing", trades |-> <<>>, processed |-> 0]
    ELSE IF file.fault = "load"
    THEN [outcome |-> "raised", trades |-> <<>>, processed |-> 0]
    ELSE IF v # "mega" /\ file.len < MinRows(v)
    THEN [outcome |-> "short", trades |-> <<>>, processed |-> 0]
    ELSE LET r == backtest_configuration(v, ticker, TailFrame(v, read_csv(file)),
                                         file.order, analysis_days, holding_days, t1, t2)
         IN IF r.raised
            THEN [outcome |-> "raised",
                  trades |-> IF v = "mega" THEN r.appended ELSE <<>>,
                  processed |-> 0]
            ELSE [outcome |-> "ok", trades |-> r.trades,
                  processed |-> IF r.trades = <<>> THEN 0 ELSE 1]

\* body of the loop over the tickers, try/except included:
\* [outcome, trades, processed].  mega_backtest_symbol appends each trade to
\* self.all_trades as it is made, so those made before a raise stay.
RunTicker(v, ticker, file, analysis_days, holding_days, t1, t2) ==
    IF ~file.exists
    THEN [outcome |-> "missing", trades |-> <<>>, processed |-> 0]
    ELSE IF file.fault = "load"
    THEN [outcome |-> "raised", trades |-> <<>>, processed |-> 0]
    ELSE IF v # "mega" /\ file.len < MinRows(v)
    THEN [outcome |-> "short", trades |-> <<>>, processed |-> 0]
    ELSE LET r == backtest_configuration(v, ticker, TailFrame(v, read_csv(file)),
                                         file.order, analysis_days, holding_days, t1, t2)
         IN IF r.raised
            THEN [outcome |-> "raised",
                  trades |-> IF v = "mega" THEN r.appended ELSE <<>>,
                  processed |-> 0]
            ELSE [outcome |-> "ok", trades |-> r.trades, processed |-> 1]

\* the sum of return_pct over trades[lo..hi]
RECURSIVE SumReturnBetween(_, _, _)
SumReturnBetween(trades, lo, hi) ==
    IF lo > hi THEN 0
    ELSE IF lo = hi THEN trades[lo].return_pct
    ELSE LET mid == (lo + hi) \div 2
         IN SumReturnBetween(trades, lo, mid) + SumReturnBetween(trades, mid + 1, hi)

\* mutant: a sum that leaves out the first trade of the list
SumReturn_SkipsFirst(trades) == SumReturnBetween(trades, 2, Len(trades))

SumReturn(trades) == SumReturnBetween(trades, 1, Len(trades))

\* df['signal'].unique(): the signals in order of first appearance
UniqueSignals(trades) ==
    LET first == SelectSeq([k \in 1..Len(trades) |-> k],
                           LAMBDA k : \A j \in 1..(k - 1) : trades[j].signal # trades[k].signal)
    IN [n \in 1..Len(first) |-> trades[first[n]].signal]

IsCorrect(t) == t.correct
IsWin(t) == t.return_pct > 0

\* hit rates are held in thousandths of a percent
\* signal_trades['correct'].sum() / len(signal_trades) * 100
HitRate(trades) == (Len(SelectSeq(trades, IsCorrect)) * 100000) \div Len(trades)
\* (x > 0).mean() * 100, then .round(3)
HitRateRound3(trades) ==
    (Len(SelectSeq(trades, IsWin)) * 200000 + Len(trades)) \div (2 * Len(trades))

Symbols(trades) == {trades[k].symbol : k \in 1..Len(trades)}

\* a group filter that lets every signal group through
EnoughSignalTrades_Any(signal_trades) == TRUE

\* "if len(signal_trades) < 5: continue", as the condition to go on
EnoughSignalTrades(signal_trades) == Len(signal_trades) >= MinSignalTrades

\* analyze_configuration / analyze_accumulation_config: the rows appended to
\* all_results (symbols and config_trades are kept beside the program's keys:
\* the symbols that have a trade in the frame analysed, and its length)
RECURSIVE AnalyzeSignals(_, _, _, _, _, _, _, _)
AnalyzeSignals(signals, trades, sector, analysis_days, holding_days, t1, t2, tickers_count) ==
    IF signals = <<>>
    THEN <<>>
    ELSE LET signal_type == Head(signals)
             signal_trades == SelectSeq(trades, LAMBDA t : t.signal = signal_type)
             rest == AnalyzeSignals(Tail(signals), trades, sector, analysis_days,
                                    holding_days, t1, t2, tickers_count)
         IN IF ~EnoughSignalTrades(signal_trades)
            THEN rest
            ELSE <<[sector |-> sector, signal_type |-> signal_type,
                    analysis_days |-> analysis_days, holding_days |-> holding_days,
                    t1 |-> t1, t2 |-> t2,
                    hit_rate |-> HitRate(signal_trades),
                    avg_return |-> SumReturn(signal_trades) \div Len(signal_trades),
                    trade_count |-> Len(signal_trades),
                    tickers_count |-> tickers_count,
                    symbols |-> Symbols(trades),
                    config_trades |-> Len(trades)]>> \o rest

analyze_configuration(trades, sector, analysis_days, holding_days, t1, t2, tickers_count) ==
    AnalyzeSignals(UniqueSignals(trades), trades, sector, analysis_days, holding_days,
                   t1, t2, tickers_count)

\* sort_values('hit_rate', ascending=False): the default sort is not stable, so
\* rows of equal hit rate come out in either order (tie = "keep" or "swap")
RECURSIVE InsertByHitRate(_, _, _)
InsertByHitRate(sorted, row, tie) ==
    IF sorted = <<>>
    THEN <<row>>
    ELSE LET last == sorted[Len(sorted)]
         IN IF last.hit_rate > row.hit_rate \/ (last.hit_rate = row.hit_rate /\ tie = "keep")
            THEN Append(sorted, row)
            ELSE Append(InsertByHitRate(SubSeq(sorted, 1, Len(sorted) - 1), row, tie), last)

\* a table left in the order of its rows
SortByHitRate_Unsorted(rows, tie) == rows

RECURSIVE SortByHitRate(_, _)
SortByHitRate(rows, tie) ==
    IF rows = <<>>
    THEN <<>>
    ELSE InsertByHitRate(SortByHitRate(SubSeq(rows, 1, Len(rows) - 1), tie),
                         rows[Len(rows)], tie)

\* show_best_configurations / show_best_accumulation_configs: the table sorted
\* for display is the >= 80 % rows, else the >= 70 % rows (SuperMegaBacktester);
\* the >= 90 % rows, else the >= 80 % rows (SuperMegaBacktesterFinra)
show_best_configurations(v, results, tie) ==
    LET top == IF v = "super_mega" THEN 80000 ELSE 90000
        high == SelectSeq(results, LAMBDA r : r.hit_rate >= top)
        good == SelectSeq(results, LAMBDA r : r.hit_rate >= top - 10000)
    IN IF high # <<>> THEN SortByHitRate(high, tie)
       ELSE IF good # <<>> THEN SortByHitRate(good, tie)
       ELSE <<>>

\* bounds of Spec: the rows of each CSV file, and how many values of the
\* analysis-window and holding-period lists the loops run over (the threshold
\* loops run over the first ThresholdDepth values of their lists)
UniverseLen == 32
ShortRows == 12
GridDepth == 2
ThresholdDepth == 1
\* at most MaxIrregular files of a universe are missing, short, unreadable or
\* carry bad dates
MaxIrregular == 1

GridWindows(v) == Prefix(AnalysisGrid(v), GridDepth)
GridHoldings == Prefix(holding_periods, GridDepth)
GridT1(v) == Prefix(T1Grid(v), ThresholdDepth)
GridT2(v) == Prefix(T2Grid(v), ThresholdDepth)

\* the four nested for loops, as the sequence of configurations they visit;
\* MegaBacktester runs the one configuration of its defaults
ConfigSeq(v) ==
    LET n1 == Len(GridWindows(v))
        n2 == Len(GridHoldings)
        n3 == Len(GridT1(v))
        n4 == Len(GridT2(v))
    IN IF v = "mega"
       THEN <<[analysis_days |-> MegaAnalysisDays, holding_days |-> MegaHoldingDays,
               t1 |-> 0, t2 |-> 0]>>
       ELSE
       [k \in 1..(n1 * n2 * n3 * n4) |->
          [analysis_days |-> GridWindows(v)[((k - 1) \div (n2 * n3 * n4)) + 1],
           holding_days |-> GridHoldings[(((k - 1) \div (n3 * n4)) % n2) + 1],
           t1 |-> GridT1(v)[(((k - 1) \div n4) % n3) + 1],
           t2 |-> GridT2(v)[((k - 1) % n4) + 1]]]

SameConfig(t, c) ==
    /\ t.analysis_days = c.analysis_days
    /\ t.holding_days = c.holding_days
    /\ t.t1 = c.t1
    /\ t.t2 = c.t2

\* df.groupby([analysis_days, holding_days, off_exchange_threshold,
\* price_stability_threshold]).agg(count, mean, share of x > 0): one row per
\* configuration that has a trade, in key order
RECURSIVE ConfigResults(_, _)
ConfigResults(configs, trades) ==
    IF configs = <<>>
    THEN <<>>
    ELSE LET c == Head(configs)
             group == SelectSeq(trades, LAMBDA t : SameConfig(t, c))
             rest == ConfigResults(Tail(configs), trades)
         IN IF group = <<>>
            THEN rest
            ELSE <<[analysis_days |-> c.analysis_days, holding_days |-> c.holding_days,
                    t1 |-> c.t1, t2 |-> c.t2,
                    trade_count |-> Len(group),
                    avg_return |-> SumReturn(group) \div Len(group),
                    hit_rate |-> HitRateRound3(group),
                    symbols |-> Symbols(group)]>> \o rest

\* analyze_mega_results: valid_configs.sort_values('hit_rate',
\* ascending=False).head(10)
analyze_mega_results(v, trades, tie) ==
    LET config_results == ConfigResults(ConfigSeq(v), trades)
        valid_configs == SelectSeq(config_results, LAMBDA r : r.trade_count >= MinAccumTrades)
    IN Prefix(SortByHitRate(valid_configs, tie), 10)

\* numpy's round: to the nearest integer, a half to the even one
RoundHalfEven(num, den) ==
    LET q == num \div den
        r == num % den
    IN IF 2 * r < den THEN q
       ELSE IF 2 * r > den THEN q + 1
       ELSE IF q % 2 = 0 THEN q ELSE q + 1

\* MegaBacktester.analyze_mega_results: df.groupby('symbol').agg(count, mean,
\* mean of correct).round(3), hit_rate = (hit_rate_decimal * 100).round(1),
\* sorted by hit_rate descending; nothing when there is no trade
symbol_stats(symbols, trades, tie) ==
    LET traded == SelectSeq(symbols, LAMBDA sym : \E k \in 1..Len(trades) : trades[k].symbol = sym)
        Row(sym) ==
            LET group == SelectSeq(trades, LAMBDA t : t.symbol = sym)
            IN [symbol |-> sym,
                trades |-> Len(group),
                avg_return |-> SumReturn(group) \div Len(group),
                hit_rate |-> 100 * RoundHalfEven(Len(SelectSeq(group, IsCorrect)) * 1000,
                                                 Len(group))]
    IN SortByHitRate([k \in 1..Len(traded) |-> Row(traded[k])], tie)

(***************************************************************************)
(* Specification Spec: one run of the grid search over a universe of CSV   *)
(* files drawn from Files.                                                 *)
(***************************************************************************)
\* a CSV file is held as what it contains: [exists, shape, len, dates, fault],
\* with the order in which sort_values leaves its rows of equal date: the sort
\* is not stable, but it sorts the same frame the same way in every call
Missing ==
    [exists |-> FALSE, shape |-> "flat", len |-> 0, dates |-> "ok", fault |-> "none",
     order |-> "keep"]
File(shape, len, dates, fault, order) ==
    [exists |-> TRUE, shape |-> shape, len |-> len, dates |-> dates, fault |-> fault,
     order |-> order]

IsRegular(file) ==
    /\ file.exists
    /\ file.len = UniverseLen
    /\ file.dates = "ok"
    /\ file.fault = "none"

\* the shapes on which the variant's classifier finds signals
Productive(v) == IF v = "super_mega" THEN "rally" ELSE "calm"
FileShapes(v) ==
    IF v = "super_mega" THEN {"flat", "slide", "peak"}
    ELSE {"flat", "calm", "dip"}

Files(v) ==
    {Missing, File("flat", ShortRows, "ok", "none", "keep"),
     File(Productive(v), UniverseLen, "ok", "load", "keep"),
     File(Productive(v), UniverseLen, "ok", "close", "keep"),
     File(Productive(v), UniverseLen, "dup", "none", "keep"),
     File(Productive(v), UniverseLen, "dup", "none", "swap"),
     File(Productive(v), UniverseLen, "disorder", "none", "keep")}
    \cup {File(shape, UniverseLen, "ok", "none", "keep") : shape \in FileShapes(v)}

Universes(v) ==
    {u \in [Tickers(v) -> Files(v)] :
        Cardinality({t \in Tickers(v) : ~IsRegular(u[t])}) <= MaxIrregular}

Init ==
    /\ variant \in Classes
    /\ universe \in Universes(variant)
    /\ cfg = 1
    /\ sector_idx = 1
    /\ ticker_idx = 1
    /\ all_trades = <<>>
    /\ processed_tickers = 0
    /\ all_results = <<>>
    /\ pool = <<>>
    /\ ranked = <<>>
    /\ visited = 0
    /\ phase = "tickers"
    /\ sim = [pc |-> "off"]

Config == ConfigSeq(variant)[cfg]
Sector == ticker_info(variant)[sector_idx]

\* mutant: a pass of the loop that records the analysis of the trades
\* collected so far
ProcessTicker_RecordsEarly ==
    /\ phase = "tickers"
    /\ ticker_idx <= Len(Sector.tickers)
    /\ LET ticker == Sector.tickers[ticker_idx]
           r == RunTicker(variant, ticker, universe[ticker], Config.analysis_days,
                          Config.holding_days, Config.t1, Config.t2)
       IN /\ all_trades' = all_trades \o r.trades
          /\ processed_tickers' = processed_tickers + r.processed
          /\ all_results' =
                 IF variant \in {"super_mega", "finra"} /\ Len(all_trades \o r.trades) >= MinConfigTrades
                 THEN all_results \o analyze_configuration(all_trades \o r.trades, Sector.sector,
                                         Config.analysis_days, Config.holding_days,
                                         Config.t1, Config.t2, processed_tickers + r.processed)
                 ELSE all_results
          /\ pool' = IF variant = "accum_real" THEN pool \o r.trades ELSE pool
    /\ ticker_idx' = ticker_idx + 1
    /\ visited' = visited + 1
    /\ UNCHANGED <<variant, sim, universe, cfg, sector_idx, ranked, phase>>

\* a pass of the loop without the except clause: an exception ends the run
ProcessTicker_Propagates ==
    /\ phase = "tickers"
    /\ ticker_idx <= Len(Sector.tickers)
    /\ LET ticker == Sector.tickers[ticker_idx]
           r == RunTicker(variant, ticker, universe[ticker], Config.analysis_days,
                          Config.holding_days, Config.t1, Config.t2)
       IN /\ all_trades' = all_trades \o r.trades
          /\ processed_tickers' = processed_tickers + r.processed
          /\ phase' = IF r.outcome = "raised" THEN "aborted" ELSE phase
    /\ ticker_idx' = ticker_idx + 1
    /\ visited' = visited + 1
    /\ UNCHANGED <<variant, sim, universe, cfg, sector_idx, all_results, pool, ranked>>

\* one pass of "for ticker in tickers"
ProcessTicker ==
    /\ phase = "tickers"
    /\ ticker_idx <= Len(Sector.tickers)
    /\ LET ticker == Sector.tickers[ticker_idx]
           r == RunTicker(variant, ticker, universe[ticker], Config.analysis_days,
                          Config.holding_days, Config.t1, Config.t2)
       IN /\ all_trades' = all_trades \o r.trades
          /\ processed_tickers' = processed_tickers + r.processed
    /\ ticker_idx' = ticker_idx + 1
    /\ visited' = visited + 1
    /\ UNCHANGED <<variant, sim, universe, cfg, sector_idx, all_results, pool, ranked, phase>>

\* the end of the loop over the tickers: the configuration's trades are
\* analysed (or pooled), and the enclosing loops advance
FinishConfiguration ==
    /\ phase = "tickers"
    /\ ticker_idx > Len(Sector.tickers)
    /\ IF variant \in {"accum_real", "mega"}
       THEN /\ pool' = pool \o all_trades
            /\ UNCHANGED all_results
       ELSE /\ all_results' =
                 IF Len(all_trades) >= MinConfigTrades
                 THEN all_results \o analyze_configuration(all_trades, Sector.sector,
                                         Config.analysis_days, Config.holding_days,
                                         Config.t1, Config.t2, processed_tickers)
                 ELSE all_results
            /\ UNCHANGED pool
    /\ all_trades' = <<>>
    /\ processed_tickers' = 0
    /\ ticker_idx' = 1
    /\ IF sector_idx < Len(ticker_info(variant))
       THEN /\ sector_idx' = sector_idx + 1
            /\ UNCHANGED <<cfg, phase>>
       ELSE IF cfg < Len(ConfigSeq(variant))
       THEN /\ sector_idx' = 1
            /\ cfg' = cfg + 1
            /\ UNCHANGED phase
       ELSE /\ phase' = "show"
            /\ UNCHANGED <<cfg, sector_idx>>
    /\ UNCHANGED <<variant, sim, universe, ranked, visited>>

\* show_best_configurations / analyze_mega_results after the loops
\* (MegaBacktester: the table of symbols of its analyze_mega_results)
ShowBest ==
    /\ phase = "show"
    /\ \E tie \in {"keep", "swap"} :
          ranked' = CASE variant = "accum_real" -> analyze_mega_results(variant, pool, tie)
                      [] variant = "mega" ->
                            symbol_stats(ticker_info(variant)[1].tickers, pool, tie)
                      [] OTHER -> show_best_configurations(variant, all_results, tie)
    /\ phase' = "done"
    /\ UNCHANGED <<variant, sim, universe, cfg, sector_idx, ticker_idx, all_trades,
                   processed_tickers, all_results, pool, visited>>

Next == ProcessTicker \/ FinishConfiguration \/ ShowBest

Spec == Init /\ [][Next]_vars

(***************************************************************************)
(* Specification SpecProb: calculate_ultra_precise_probabilities of        *)
(* MegaBacktesterDB (src/mega_backtester_db.py) and MegaBacktesterHistorical *)
(* (src/mega_backtester_historical.py) on a frame of trades drawn from a   *)
(* bounded set, one signal type per step.  sim holds the frame df, the     *)
(* signal types still to report and the lines reported.                    *)
(***************************************************************************)
\* bound of SpecProb: the longest frame of trades
ProbTrades == 4

ProbClasses == {"mega_db", "mega_historical"}
ProbSignals == {"BUY_STRONG", "SELL_STRONG"}

ProbTrade(signal, is_correct) ==
    [signal |-> signal, correct |-> is_correct,
     return_pct |-> IF is_correct THEN 150 ELSE -50]

ProbFrames ==
    UNION {[1..n -> {ProbTrade(signal, is_correct) :
                        signal \in ProbSignals, is_correct \in BOOLEAN}] : n \in 1..ProbTrades}

\* 1.96 * signal_data['correct'].std() / np.sqrt(len(signal_data)) * 100, held
\* as its square sqnum / sqden.  pandas' std is the sample deviation: of n
\* flags of which c are true it is sqrt(c (n - c) / (n (n - 1))), nan for n = 1.
\* MegaBacktesterDB reports 0 unless len(signal_data) > 1.
confidence_interval(class, signal_data) ==
    LET n == Len(signal_data)
        c == Len(SelectSeq(signal_data, IsCorrect))
    IN IF class = "mega_db" /\ ~(n > 1)
       THEN [nan |-> FALSE, sqnum |-> 0, sqden |-> 1]
       ELSE IF n < 2
       THEN [nan |-> TRUE, sqnum |-> 0, sqden |-> 1]
       ELSE [nan |-> FALSE, sqnum |-> 38416 * c * (n - c), sqden |-> n * n * (n - 1)]

\* the figures printed for one signal type (correct_count is kept beside them)
ProbabilityLine(class, df, signal_type) ==
    LET signal_data == SelectSeq(df, LAMBDA t : t.signal = signal_type)
    IN [signal_type |-> signal_type,
        hit_rate |-> HitRate(signal_data),
        avg_return |-> SumReturn(signal_data) \div Len(signal_data),
        trade_count |-> Len(signal_data),
        correct_count |-> Len(SelectSeq(signal_data, IsCorrect)),
        confidence_interval |-> confidence_interval(class, signal_data)]

InitProb ==
    /\ variant \in ProbClasses
    /\ \E df \in ProbFrames :
          sim = [pc |-> "prob_loop", df |-> df, signals |-> UniqueSignals(df), lines |-> <<>>]
    /\ universe = <<>>
    /\ cfg = <<>>
    /\ sector_idx = 0
    /\ ticker_idx = 0
    /\ all_trades = <<>>
    /\ processed_tickers = 0
    /\ all_results = <<>>
    /\ pool = <<>>
    /\ ranked = <<>>
    /\ visited = 0
    /\ phase = "off"

\* one pass of "for signal_type in df['signal'].unique()"
ProbReport ==
    /\ sim.pc = "prob_loop"
    /\ sim.signals # <<>>
    /\ sim' = [sim EXCEPT !.signals = Tail(@),
                          !.lines = Append(@, ProbabilityLine(variant, sim.df, Head(sim.signals)))]
    /\ UNCHANGED <<variant, orch_vars>>

\* the end of the loop
ProbReturn ==
    /\ sim.pc = "prob_loop"
    /\ sim.signals = <<>>
    /\ sim' = [sim EXCEPT !.pc = "prob_returned"]
    /\ UNCHANGED <<variant, orch_vars>>

NextProb == ProbReport \/ ProbReturn

SpecProb == InitProb /\ [][NextProb]_vars

(***************************************************************************)
(* Claims on one call of backtest_configuration (SpecSim).                 *)
(***************************************************************************)
SimLen == Len(sim.frame.bars)
SimDone == sim.pc = "returned"

\* the start indices 0 .. hi as the sequence the loop would visit
Indices(lo, hi) == [k \in 1..Max(hi - lo + 1, 0) |-> lo + k - 1]

\* C1 (as claimed): for a series of length L >= analysis_days + holding_days the
\* simulator evaluates every start index 0 .. L - analysis_days - holding_days,
\* that is L - analysis_days - holding_days + 1 windows.
C1_AllStartsEvaluated ==
    (SimDone /\ sim.frame.fault = "none" /\ SimLen >= sim.analysis_days + sim.holding_days)
        => sim.evaluated = Indices(0, SimLen - sim.analysis_days - sim.holding_days)

\* C2 (as claimed): a trade's 'correct' flag is true exactly when its return_pct
\* is strictly positive, so that the hit rate is the share of trades with
\* return_pct > 0.
C2_CorrectIffPositive ==
    (SimDone /\ variant # "accum_real")
        => \A k \in 1..Len(sim.trades) :
              sim.trades[k].correct <=> (sim.trades[k].return_pct > 0)

\* C3: for a series shorter than analysis_days + holding_days the simulator
\* returns an empty trade list and does not raise, whatever the configuration
\* and whatever the columns hold.
C3_ShortSeriesEmpty ==
    (sim.pc # "call" /\ SimLen < sim.analysis_days + sim.holding_days)
        => (sim.pc # "raised" /\ sim.trades = <<>>)

C3_Witness ==
    /\ SimDone
    /\ SimLen < sim.analysis_days + sim.holding_days
    /\ SimLen > 0
    /\ sim.frame.fault = "close"

\* the start indices visited so far whose window is classified non-HOLD (and
\* not None) and whose exit index lies inside the series
TradeStarts ==
    {s \in Range(sim.evaluated) :
        LET sig == Classify(variant, sim.data, s, sim.analysis_days, sim.t1, sim.t2)
        IN /\ sig.ok
           /\ sig.signal # "HOLD"
           /\ s + sim.analysis_days - 1 + sim.holding_days < Len(sim.data)}

\* C4: a window classified HOLD (or None) never produces a trade, and the number
\* of trades of a run is the number of evaluated start indices classified
\* non-HOLD whose exit index is inside the series.
C4_TradesAreNonHoldWindows ==
    (sim.pc \in {"loop", "returned"})
        => /\ Len(sim.trades) = Cardinality(TradeStarts)
           /\ \A k \in 1..Len(sim.trades) :
                 /\ sim.trades[k].signal \notin {"HOLD", "None"}
                 /\ sim.trades[k].start_idx \in TradeStarts

C4_Witness ==
    /\ SimDone
    /\ sim.trades # <<>>
    /\ \E s \in Range(sim.evaluated) :
          Classify(variant, sim.data, s, sim.analysis_days, sim.t1, sim.t2).signal = "HOLD"

UpFamily == {"BUY_STRONG", "BUY_MODERATE", "ACCUMULATION_STRONG", "ACCUMULATION_MODERATE",
             "ACCUMULATION"}
DownFamily == {"SELL_STRONG", "SELL_MODERATE", "DISTRIBUTION_STRONG"}

\* C5: for every emitted trade with a positive entry price, return_pct is the
\* raw forward return for a BUY/ACCUMULATION trade and its negation for a
\* SELL/DISTRIBUTION trade: a BUY trade that exits above its entry and a SELL
\* trade that exits below its entry both have return_pct > 0.
C5_ReturnSign ==
    \A k \in 1..Len(sim.trades) :
       LET t == sim.trades[k]
           raw == ((t.exit_price - t.entry_price) * 10000) \div t.entry_price
       IN t.entry_price > 0 =>
            /\ t.signal \in UpFamily \cup DownFamily
            /\ t.signal \in UpFamily => t.return_pct = raw
            /\ t.signal \in DownFamily => t.return_pct = -raw
            /\ (t.signal \in UpFamily /\ t.exit_price > t.entry_price) => t.return_pct > 0
            /\ (t.signal \in DownFamily /\ t.exit_price < t.entry_price) => t.return_pct > 0

C5_Witness ==
    /\ SimDone
    /\ \E k \in 1..Len(sim.trades) :
          /\ sim.trades[k].signal \in DownFamily
          /\ sim.trades[k].exit_price < sim.trades[k].entry_price
          /\ sim.trades[k].entry_price > 0
    /\ \E k \in 1..Len(sim.trades) :
          /\ sim.trades[k].signal \in UpFamily
          /\ sim.trades[k].exit_price > sim.trades[k].entry_price

(***************************************************************************)
(* Claims on one run of the grid search (Spec).                            *)
(***************************************************************************)
\* the rows the ranking draws from
ResultRows ==
    IF variant = "accum_real"
    THEN SelectSeq(ConfigResults(ConfigSeq(variant), pool),
                   LAMBDA r : r.trade_count >= MinAccumTrades)
    ELSE all_results

\* C6 (as claimed): the ranked table is ordered by hit rate descending, rows of
\* equal hit rate by trade_count descending, and rows equal on both by mean
\* return descending.
C6_RankedWithTieBreaks ==
    (phase = "done" /\ variant \in Variants) =>
       \A i, j \in 1..Len(ranked) :
          i < j =>
             \/ ranked[i].hit_rate > ranked[j].hit_rate
             \/ /\ ranked[i].hit_rate = ranked[j].hit_rate
                /\ ranked[i].trade_count > ranked[j].trade_count
             \/ /\ ranked[i].hit_rate = ranked[j].hit_rate
                /\ ranked[i].trade_count = ranked[j].trade_count
                /\ ranked[i].avg_return >= ranked[j].avg_return

\* C6 (amended): the ranked table is ordered by hit rate descending and by
\* nothing else: its rows are distinct result rows, no later row has a higher
\* hit rate than an earlier one, and every result row with a hit rate above
\* that of the last ranked row is in the table.
C6_RankedByHitRate ==
    (phase = "done" /\ variant \in Variants) =>
       /\ \A i, j \in 1..Len(ranked) :
             i < j => /\ ranked[i].hit_rate >= ranked[j].hit_rate
                      /\ ranked[i] # ranked[j]
       /\ Range(ranked) \subseteq Range(ResultRows)
       /\ ranked # <<>> =>
             \A r \in Range(ResultRows) :
                r.hit_rate > ranked[Len(ranked)].hit_rate => r \in Range(ranked)

\* a ranked table with rows of different hit rates, and with two rows of equal
\* hit rate of which the later has more trades
C6_Witness ==
    /\ phase = "done"
    /\ variant \in Variants
    /\ \E i, j \in 1..Len(ranked) : i < j /\ ranked[i].hit_rate > ranked[j].hit_rate
    /\ \E i, j \in 1..Len(ranked) :
          /\ i < j
          /\ ranked[i].hit_rate = ranked[j].hit_rate
          /\ ranked[i].trade_count < ranked[j].trade_count

\* the minimum sample a configuration's trades have to reach
ConfigMinimum == IF variant = "accum_real" THEN MinAccumTrades ELSE MinConfigTrades

\* C7 (as claimed): no row that reaches ranking has a trade_count below the
\* minimum applied to a configuration (10, 10 and 50).
C7_RowsReachConfigMinimum ==
    (phase = "done" /\ variant \in Variants) =>
       \A i \in 1..Len(ranked) : ranked[i].trade_count >= ConfigMinimum

\* C7 (amended): in MegaAccumulationBacktestReal every ranked row has at least
\* 50 trades; in SuperMegaBacktester and SuperMegaBacktesterFinra the minimum of
\* 10 is applied to all the trades of a (configuration, sector) pass, and a
\* result row, ranked or not, which is one signal type of such a pass, has at
\* least 5 trades.
C7_RowsReachGroupMinimum ==
    (phase = "done" /\ variant \in Variants) =>
       \A r \in Range(ResultRows) \cup Range(ranked) :
          IF variant = "accum_real"
          THEN r.trade_count >= MinAccumTrades
          ELSE /\ r.trade_count >= MinSignalTrades
               /\ r.config_trades >= MinConfigTrades
               /\ r.trade_count <= r.config_trades

\* a ranked row of a signal type with fewer than 10 trades, from a pass that
\* has 10 or more
C7_Witness ==
    /\ phase = "done"
    /\ variant \in {"super_mega", "finra"}
    /\ \E i \in 1..Len(ranked) :
          /\ ranked[i].trade_count < MinConfigTrades
          /\ ranked[i].config_trades >= MinConfigTrades

\* the passes of the ticker loop that a complete run makes, and those made
\* before the pass at (cfg, sector_idx, ticker_idx)
RECURSIVE TickersBefore(_, _)
TickersBefore(v, s) ==
    IF s <= 1 THEN 0 ELSE Len(ticker_info(v)[s - 1].tickers) + TickersBefore(v, s - 1)

AllPasses == Len(ConfigSeq(variant)) * TickersBefore(variant, Len(ticker_info(variant)) + 1)
PassesBefore ==
    (cfg - 1) * TickersBefore(variant, Len(ticker_info(variant)) + 1)
       + TickersBefore(variant, sector_idx) + ticker_idx - 1

\* what one ticker's file yields under configuration c
TickerTrades(ticker, c) ==
    RunTicker(variant, ticker, universe[ticker], c.analysis_days, c.holding_days,
              c.t1, c.t2).trades

Raises(ticker, c) ==
    RunTicker(variant, ticker, universe[ticker], c.analysis_days, c.holding_days,
              c.t1, c.t2).outcome = "raised"

BySymbol(trades, symbol) == SelectSeq(trades, LAMBDA t : t.symbol = symbol)

\* C8: an exception raised while one symbol is loaded or simulated under one
\* configuration does not abort the grid search: the run leaves the loops only
\* after every (configuration, sector, ticker) pass has been made, the trades
\* collected for a sector hold, for every ticker already passed, just what
\* that ticker's pass leaves (of a ticker that raised, nothing, or in
\* MegaBacktester the trades made before the exception), and in
\* MegaAccumulationBacktestReal and MegaBacktester the final pool holds them
\* for every configuration and ticker.
C8_ExceptionsDoNotAbort ==
    /\ phase \in {"tickers", "show", "done"}
    /\ phase = "tickers" =>
          /\ visited = PassesBefore
          /\ \A k \in 1..Len(Sector.tickers) :
                BySymbol(all_trades, Sector.tickers[k]) =
                   IF k < ticker_idx THEN TickerTrades(Sector.tickers[k], Config)
                   ELSE <<>>
    /\ phase # "tickers" => visited = AllPasses
    /\ (phase = "show" /\ variant \in {"accum_real", "mega"}) =>
          \A k \in 1..Len(ConfigSeq(variant)) : \A ticker \in Tickers(variant) :
             SelectSeq(BySymbol(pool, ticker), LAMBDA t : SameConfig(t, ConfigSeq(variant)[k]))
                = TickerTrades(ticker, ConfigSeq(variant)[k])

\* the first ticker of a sector raised under a configuration after the first,
\* and the trades of a later ticker of the sector are collected
C8_Witness ==
    /\ phase = "tickers"
    /\ cfg > 1
    /\ ticker_idx > Len(Sector.tickers)
    /\ Raises(Sector.tickers[1], Config)
    /\ all_trades # <<>>

\* the tickers of a result row's sector that the loop counted: file present
\* and loaded, MinRows rows or more, backtest returned
Processed(row) ==
    LET tickers == UNION {Range(ticker_info(variant)[k].tickers) :
                             k \in {n \in 1..Len(ticker_info(variant)) :
                                       ticker_info(variant)[n].sector = row.sector}}
    IN {ticker \in tickers :
           RunTicker(variant, ticker, universe[ticker], row.analysis_days,
                     row.holding_days, row.t1, row.t2).outcome = "ok"}

\* C9 (as claimed): the tickers_count of a result row equals the number of
\* symbols that contributed at least one trade to the configuration's trades.
C9_CountsContributingSymbols ==
    \A i \in 1..Len(all_results) :
       all_results[i].tickers_count = Cardinality(all_results[i].symbols)

\* C9 (amended): the tickers_count of a result row equals the number of
\* tickers of its sector whose file is present and loaded, has the minimum
\* number of rows and was backtested without an exception under the row's
\* configuration, whether or not the backtest returned a trade; the symbols
\* that contributed a trade are among them.
C9_CountsProcessedTickers ==
    phase = "show" =>
       \A i \in 1..Len(all_results) :
          /\ all_results[i].tickers_count = Cardinality(Processed(all_results[i]))
          /\ all_results[i].symbols \subseteq Processed(all_results[i])

\* a result row that counts a ticker without a trade in the row's pass
C9_Witness ==
    /\ phase = "show"
    /\ \E i \in 1..Len(all_results) :
          all_results[i].tickers_count > Cardinality(all_results[i].symbols)

BadDates(ticker) == universe[ticker].exists /\ universe[ticker].dates # "ok"

\* C10 (as claimed): a series with a duplicate date or out-of-order dates is
\* dropped from the universe: it contributes no trade to any configuration.
C10_BadDatesContributeNothing ==
    \A ticker \in Tickers(variant) :
       BadDates(ticker) => BySymbol(all_trades, ticker) = <<>> /\ BySymbol(pool, ticker) = <<>>
(***************************************************************************)
(* Further claims on the grid search (Spec).                               *)
(***************************************************************************)
Reverse(seq) == [k \in 1..Len(seq) |-> seq[Len(seq) + 1 - k]]
Rotate(seq) == IF seq = <<>> THEN seq ELSE Tail(seq) \o <<Head(seq)>>
SwapAt(seq, i) ==
    [k \in 1..Len(seq) |-> IF k = i THEN seq[i + 1] ELSE IF k = i + 1 THEN seq[i] ELSE seq[k]]

\* the trades of a list with the symbols' lists concatenated in the reverse
\* of the order in which the tickers are processed
RECURSIVE SymbolsReversed(_, _)
SymbolsReversed(trades, tickers) ==
    IF tickers = <<>>
    THEN <<>>
    ELSE SymbolsReversed(trades, Tail(tickers)) \o BySymbol(trades, Head(tickers))

\* some permutations of a trade list
Shuffles(trades, tickers) ==
    {Reverse(trades), Rotate(trades), SymbolsReversed(trades, tickers)}
    \cup {SwapAt(trades, i) : i \in {1, Len(trades) \div 2, Len(trades) - 1} \cap 1..(Len(trades) - 1)}

\* the groups an aggregation yields, without the order of its rows
Groups(rows) == {[signal_type |-> row.signal_type, trade_count |-> row.trade_count,
                  hit_rate |-> row.hit_rate, avg_return |-> row.avg_return] : row \in Range(rows)}
ConfigGroups(rows) == {[analysis_days |-> row.analysis_days, holding_days |-> row.holding_days,
                        t1 |-> row.t1, t2 |-> row.t2, trade_count |-> row.trade_count,
                        hit_rate |-> row.hit_rate, avg_return |-> row.avg_return] : row \in Range(rows)}

Analysed(trades) ==
    Groups(analyze_configuration(trades, Sector.sector, Config.analysis_days,
                                 Config.holding_days, Config.t1, Config.t2, processed_tickers))

RECURSIVE TradesOfTickers(_, _)
TradesOfTickers(tickers, c) ==
    IF tickers = <<>>
    THEN <<>>
    ELSE TickerTrades(Head(tickers), c) \o TradesOfTickers(Tail(tickers), c)

\* what the finished pass over sector s under configuration c records
PassRows(c, s) ==
    LET trades == TradesOfTickers(ticker_info(variant)[s].tickers, c)
    IN IF Len(trades) >= MinConfigTrades
       THEN analyze_configuration(trades, ticker_info(variant)[s].sector, c.analysis_days,
                c.holding_days, c.t1, c.t2,
                Cardinality({ticker \in Range(ticker_info(variant)[s].tickers) :
                                ~Raises(ticker, c) /\ universe[ticker].exists
                                /\ universe[ticker].len >= MinRows(variant)}))
       ELSE <<>>

\* a step that ends the pass under way: the loop over its tickers has finished
EndsPass ==
    /\ phase = "tickers"
    /\ (<<cfg', sector_idx'>> # <<cfg, sector_idx>> \/ phase' # "tickers")

\* what a step may do to the recorded results: the step that ends a pass
\* appends what the complete trade set of that pass yields, every other step
\* leaves the record as it is
RecordsOnlyFinishedPasses ==
    variant \in Variants =>
       IF EndsPass
       THEN /\ variant \in {"super_mega", "finra"} =>
                  all_results' = all_results \o PassRows(Config, sector_idx)
            /\ variant = "accum_real" =>
                  pool' = pool \o TradesOfTickers(Sector.tickers, Config)
       ELSE /\ all_results' = all_results
            /\ pool' = pool

\* C17: wherever the grid search is interrupted, the results recorded
\* (all_results; the pooled all_trades of MegaAccumulationBacktestReal) are
\* those of the passes whose loop over the tickers has finished, each computed
\* from the complete trade set of its pass: the record starts empty, only the
\* step that ends a pass adds to it, what it adds is computed from all the
\* trades of that pass, and no step changes what was recorded before.
C17_RecordedResultsAreComplete ==
    /\ (all_results = <<>> /\ pool = <<>>)
    /\ [][RecordsOnlyFinishedPasses]_vars

\* results of a finished pass are recorded while a later pass has collected
\* the trades of some of its tickers only
C17_Witness ==
    /\ phase = "tickers"
    /\ variant \in {"super_mega", "finra"}
    /\ all_results # <<>>
    /\ ticker_idx > 1
    /\ ticker_idx <= Len(Sector.tickers)
    /\ Len(all_trades) >= MinConfigTrades
    /\ TickerTrades(Sector.tickers[ticker_idx], Config) # <<>>

(***************************************************************************)
(* Further claims on one call of backtest_configuration (SpecSim).         *)
(***************************************************************************)
\* the trades of the same series under the same configuration but for the
\* holding period
TradesHolding(holding_days) ==
    backtest_configuration(variant, sim.symbol, sim.frame, "keep", sim.analysis_days,
                           holding_days, sim.t1, sim.t2).trades

\* the start indices that the loop visits under both holding periods
CommonStarts(h1, h2) ==
    {i \in 0..SimLen : /\ i >= StartIndex(variant)
                       /\ i < SimLen - sim.analysis_days - h1
                       /\ i < SimLen - sim.analysis_days - h2}

TradeAt(trades, i) == SelectSeq(trades, LAMBDA t : t.start_idx = i)

\* C12: for two configurations that differ only in holding_days, run on the
\* same series, every start index evaluated by both yields the same signal,
\* the same entry index and the same entry price: it trades under both or
\* under neither, and the two trades agree on all three.
C12_EntryIndependentOfHolding ==
    SimDone =>
       \A h2 \in Range(Prefix(holding_periods, SimHoldings)) :
          \A i \in CommonStarts(sim.holding_days, h2) :
             LET mine == TradeAt(sim.trades, i)
                 other == TradeAt(TradesHolding(h2), i)
             IN /\ Len(mine) = Len(other)
                /\ Len(mine) <= 1
                /\ mine # <<>> =>
                      /\ mine[1].signal = other[1].signal
                      /\ mine[1].entry_idx = other[1].entry_idx
                      /\ mine[1].entry_price = other[1].entry_price

\* a start index that trades under holding periods of 3 and of 5 days, with
\* different exits and returns
C12_Witness ==
    /\ SimDone
    /\ sim.holding_days = 3
    /\ \E i \in CommonStarts(3, 5) :
          /\ TradeAt(sim.trades, i) # <<>>
          /\ TradeAt(TradesHolding(5), i) # <<>>
          /\ TradeAt(sim.trades, i)[1].exit_idx # TradeAt(TradesHolding(5), i)[1].exit_idx
          /\ TradeAt(sim.trades, i)[1].return_pct # TradeAt(TradesHolding(5), i)[1].return_pct

\* a series of len bars of constant close and volume
FlatData(close, volume, len) == [k \in 1..len |-> SigBar(k - 1, close, volume, 10)]

\* C14: on a series whose volume and close are constant over all bars the
\* classifier of SuperMegaBacktester returns HOLD for every window the loop
\* visits and every pair of thresholds of the parameter grid, and the
\* simulator produces no trade.
C14_FlatSeriesNeverTrades ==
    (variant = "super_mega" /\ sim.frame.shape = "flat" /\ sim.pc \in {"loop", "returned"})
        => /\ sim.trades = <<>>
           /\ sim.data \in {FlatData(50, 10, SimLen)}
           /\ sim.start_idx < StopIndex(sim.data, sim.analysis_days, sim.holding_days) =>
                 \A volume_thresh \in Range(volume_thresholds) :
                 \A price_thresh \in Range(price_change_thresholds) :
                 \A close \in {0, 50} : \A volume \in {0, 10} :
                    LET r == calculate_signal_advanced(FlatData(close, volume, SimLen),
                                 sim.start_idx, sim.analysis_days, volume_thresh, price_thresh)
                    IN r.ok /\ r.signal = "HOLD"

\* a flat series of which windows of two bars or more were classified, to the
\* end of the loop
C14_Witness ==
    /\ SimDone
    /\ variant = "super_mega"
    /\ sim.frame.shape = "flat"
    /\ sim.analysis_days >= 2
    /\ Len(sim.evaluated) >= 2
    /\ sim.trades = <<>>

\* the start indices of the loop whose entry bar closes at 0
ZeroEntryStarts ==
    {i \in 0..(SimLen - 1) :
        /\ i >= StartIndex(variant)
        /\ i < StopIndex(sim.data, sim.analysis_days, sim.holding_days)
        /\ sim.data[i + sim.analysis_days].Close = 0}

\* C18: when the entry price of a candidate trade is 0, that start index is
\* skipped: it yields no trade and no exception, and the start indices after
\* it are evaluated to the end of the loop's range.
C18_ZeroEntrySkipped ==
    (sim.pc \in {"loop", "raised", "returned"} /\ sim.frame.fault = "none") =>
       /\ sim.pc # "raised"
       /\ \A k \in 1..Len(sim.trades) :
             /\ sim.trades[k].entry_price # 0
             /\ sim.trades[k].start_idx \notin ZeroEntryStarts
       /\ SimDone =>
             sim.evaluated = Indices(StartIndex(variant),
                                     StopIndex(sim.data, sim.analysis_days, sim.holding_days) - 1)

\* a series with a start index whose entry bar closes at 0, with trades from
\* start indices before it and after it
C18_Witness ==
    /\ SimDone
    /\ \E i \in ZeroEntryStarts :
          /\ \E k \in 1..Len(sim.trades) : sim.trades[k].start_idx < i
          /\ \E k \in 1..Len(sim.trades) : sim.trades[k].start_idx > i

\* exit_idx of the pass at start_idx
ExitIndex(start_idx) == start_idx + sim.analysis_days - 1 + sim.holding_days

\* C30: for every start index the loop of backtest_configuration iterates,
\* exit_index = start + analysis_days - 1 + holding_days is at most
\* len(series) - 2: the skip on exit_index >= len(series) is never taken, and
\* no trade has the last bar of the series as its exit.
C30_ExitBeforeLastBar ==
    sim.pc \in {"loop", "returned", "raised"} =>
       /\ \A k \in 1..Len(sim.evaluated) : ExitIndex(sim.evaluated[k]) <= Len(sim.data) - 2
       /\ \A k \in 1..Len(sim.trades) : sim.trades[k].exit_idx <= Len(sim.data) - 2

\* the loop has run to its end and its last pass made a trade, whose exit is
\* the bar before the last
C30_Witness ==
    /\ SimDone
    /\ sim.evaluated # <<>>
    /\ sim.trades # <<>>
    /\ sim.trades[Len(sim.trades)].start_idx = sim.evaluated[Len(sim.evaluated)]
    /\ sim.trades[Len(sim.trades)].exit_idx = Len(sim.data) - 2

(***************************************************************************)
(* Claims on one call of a signal classifier (SpecSignal).                 *)
(***************************************************************************)
SignalReturned == sim.pc = "signal_returned"
SigEnd == sim.start_idx + sim.analysis_days

\* C11 (as claimed): the window metrics calculator returns no metrics if and
\* only if start index plus window length exceeds the length of the series; a
\* window that ends on the last bar yields metrics.
C11_NoneIffBeyondEnd ==
    (SignalReturned /\ variant \in Variants)
        => (~sim.result.ok <=> SigEnd > Len(sim.data))

\* the window of the call, and its metrics as the specification defines them
SigSlice == iloc(sim.data, sim.start_idx, SigEnd)
SigHighOff == SumOffPct(SigSlice) >= sim.t1 * Len(SigSlice)
SigFirstClose == SigSlice[1].Close
SigLastClose == SigSlice[Len(SigSlice)].Close
\* |price_change| <= price_stability_threshold (held in tenths of a percent)
SigStable ==
    /\ SigFirstClose > 0
    /\ Abs(SigLastClose - SigFirstClose) * 1000 <= sim.t2 * SigFirstClose
\* stddev(close) / mean(close) * 100 <= k, the volatility of a slice of one
\* element being 0
SigCalm(k) == Len(SigSlice) = 1 \/ VolLE(price_volatility(SigSlice), k)
SigOffTrend ==
    SigSlice[Len(SigSlice)].off_exchange_pct - SigSlice[1].off_exchange_pct

\* C13 (as claimed): whenever the mean off-exchange share of the window is at
\* or above off_exchange_threshold, |price_change| is at most
\* price_stability_threshold and the volatility is at or below the ceiling of
\* 3 %, the classifier of SuperMegaBacktesterFinra returns ACCUMULATION_STRONG
\* if off_exchange_trend > 0 and ACCUMULATION_MODERATE otherwise, whatever
\* other rule's condition holds.
C13_AccumulationRuleWins ==
    (SignalReturned /\ variant = "finra" /\ sim.result.ok)
        => ((SigHighOff /\ SigStable /\ SigCalm(3))
               => sim.result.signal = IF SigOffTrend > 0
                                      THEN "ACCUMULATION_STRONG"
                                      ELSE "ACCUMULATION_MODERATE")

\* C19: when the first close of a window is 0 the window is classified NONE
\* (HOLD, or no signal) whatever its other closes, volumes and off-exchange
\* shares are, so that no trade is emitted for it.
C19_ZeroFirstCloseIsNone ==
    (SignalReturned /\ variant \in Variants /\ sim.start_idx < Len(sim.data))
        => (SigFirstClose = 0 => (~sim.result.ok \/ sim.result.signal = "HOLD"))

\* a full window of two bars with a zero first close, a positive last close
\* and a high off-exchange share on a surge of volume, for which the
\* classifier returned its metrics
C19_Witness ==
    /\ SignalReturned
    /\ variant \in {"super_mega", "finra"}
    /\ sim.result.ok
    /\ Len(SigSlice) = 2
    /\ SigFirstClose = 0
    /\ SigLastClose > 0
    /\ SigHighOff
    /\ SigSlice[1].Volume > sim.data[1].Volume

\* price_change < -price_stability_threshold, and price_change <= twice that
SigDecline ==
    /\ SigFirstClose > 0
    /\ (SigLastClose - SigFirstClose) * 1000 < (-sim.t2) * SigFirstClose
SigSteepDecline ==
    /\ SigFirstClose > 0
    /\ (SigLastClose - SigFirstClose) * 1000 <= (-2 * sim.t2) * SigFirstClose

\* C20 (as claimed): whenever the mean off-exchange share is at or above
\* off_exchange_threshold and price_change is below -price_stability_threshold,
\* however large the decline, the classifier of SuperMegaBacktesterFinra
\* returns the DISTRIBUTION signal.
C20_AnyDeclineIsDistribution ==
    (SignalReturned /\ variant = "finra" /\ SigEnd < Len(sim.data))
        => ((SigHighOff /\ SigDecline) => sim.result.signal = "DISTRIBUTION_STRONG")

\* C20 (amended): for a window that ends before the last bar, whenever the
\* mean off-exchange share is at or above off_exchange_threshold and
\* price_change is below -price_stability_threshold but above twice that, the
\* classifier returns DISTRIBUTION_STRONG; a decline of twice the threshold or
\* more is left as HOLD.
C20_ControlledDeclineIsDistribution ==
    (SignalReturned /\ variant = "finra" /\ SigEnd < Len(sim.data))
        => /\ (SigHighOff /\ SigDecline /\ ~SigSteepDecline)
                 => sim.result.signal = "DISTRIBUTION_STRONG"
           /\ (SigHighOff /\ SigSteepDecline) => sim.result.signal = "HOLD"

\* a high off-exchange share with a decline inside the band of one to two
\* thresholds, classified DISTRIBUTION_STRONG
C20_Witness ==
    /\ SignalReturned
    /\ variant = "finra"
    /\ SigEnd < Len(sim.data)
    /\ SigHighOff
    /\ SigDecline
    /\ ~SigSteepDecline
    /\ sim.result.signal = "DISTRIBUTION_STRONG"

\* a volatility of 0, and the signal the classifier's rules give the window
\* of the call under a volatility vol
ZeroVolatility == [nan |-> FALSE, sqnum |-> 0, sqden |-> 1]
SigWithVolatility(vol) ==
    IF variant = "super_mega"
    THEN SignalAdvanced(volume_ratio(sim.data, sim.start_idx, SigSlice),
                        price_change(SigSlice), vol, sim.t1, sim.t2)
    ELSE AccumulationSignal(SigSlice, price_change(SigSlice), vol, sim.t1, sim.t2)

\* C23: the price volatility of a window of a single bar (analysis_days = 1)
\* is 0, and the window is classified as a window of zero volatility is.
C23_OneBarVolatilityIsZero ==
    (SignalReturned /\ variant \in {"super_mega", "finra"} /\ sim.result.ok
        /\ sim.analysis_days = 1 /\ SigFirstClose > 0)
        => /\ price_volatility(SigSlice) = ZeroVolatility
           /\ sim.result.signal = SigWithVolatility(ZeroVolatility)

\* window metrics for the rules of calculate_signal_advanced: volume ratios
\* 0.5 .. 3.0, price changes -6 % .. 6 % (and those of a zero first close),
\* volatilities 0 % .. 5 % and nan
MetricRatios == {[num |-> n, den |-> 10] : n \in {5, 10, 13, 15, 18, 20, 25, 30}}
MetricChanges ==
    {[num |-> n, den |-> 10] : n \in {-60, -30, -20, -10, -4, -2, 0, 2, 4, 10, 20, 30, 60}}
    \cup {[num |-> n, den |-> 0] : n \in {-1, 0, 1}}
MetricVolatilities ==
    {[nan |-> FALSE, sqnum |-> k * k, sqden |-> 1] : k \in 0..5}
    \cup {[nan |-> TRUE, sqnum |-> 0, sqden |-> 1]}

\* the labels the if/elif chain returns over these metrics and the whole
\* grid of thresholds
AssignedLabels ==
    {SignalAdvanced(vr, pc, vol, volume_thresh, price_thresh) :
        vr \in MetricRatios, pc \in MetricChanges, vol \in MetricVolatilities,
        volume_thresh \in Range(volume_thresholds),
        price_thresh \in Range(price_change_thresholds)}

\* C26: each label that calculate_signal_advanced can assign (BUY_STRONG,
\* BUY_MODERATE, SELL_STRONG, SELL_MODERATE) is returned by the if/elif chain
\* for some window metrics and thresholds.
C26_EveryLabelAssigned ==
    variant = "super_mega" =>
       {"BUY_STRONG", "BUY_MODERATE", "SELL_STRONG", "SELL_MODERATE"} \subseteq AssignedLabels

\* the signals of the one-bar windows of SpecSignal's frames, under every
\* pair of thresholds of the class's grid
OneBarSignals(v) ==
    {Classify(v, SigData(<<close>>, volumes, offs, "inside"), BaselineDays, 1, t1, t2).signal :
        close \in SigCloses, volumes \in SigVolumeProfiles, offs \in SigOffProfiles,
        t1 \in Range(T1Grid(v)), t2 \in Range(T2Grid(v))}
OneBarSignalsAdvanced == OneBarSignals("super_mega")
OneBarSignalsAccumulation == OneBarSignals("finra")

\* C29: a configuration with analysis_days = 1 can produce trades: for some
\* series and thresholds of the grid the one-bar window is classified other
\* than HOLD by calculate_signal_advanced, and for some by
\* calculate_accumulation_signal, so that a trade is emitted.
C29_OneBarWindowCanTrade ==
    /\ variant = "super_mega" => OneBarSignalsAdvanced \ {"HOLD", "None"} # {}
    /\ variant = "finra" => OneBarSignalsAccumulation \ {"HOLD", "None"} # {}

(***************************************************************************)
(* Claims on calculate_ultra_precise_probabilities (SpecProb).             *)
(***************************************************************************)
\* C16 (as claimed): the 95 % confidence half-width reported for a signal
\* group is 1.96 * sqrt(p (1 - p) / n) * 100 with p = hit_rate / 100 and n the
\* group's trade count (its square is 38416 c (n - c) / n^3 for c correct
\* trades), and 0 whenever n <= 1.
C16_HalfWidthNormalApproximation ==
    sim.pc \in {"prob_loop", "prob_returned"} =>
       \A k \in 1..Len(sim.lines) :
          LET line == sim.lines[k]
              n == line.trade_count
              c == line.correct_count
              ci == line.confidence_interval
          IN /\ ~ci.nan
             /\ IF n <= 1
                THEN ci.sqnum = 0
                ELSE ci.sqnum * n * n * n = 38416 * c * (n - c) * ci.sqden

(***************************************************************************)
(* Claims on one call of mega_backtest_symbol (SpecMega).                  *)
(***************************************************************************)
\* C21: every trade of mega_backtest_symbol has the close and the date of the
\* bar at entry_index = start + analysis_days - 1 of the date-sorted series as
\* its entry_price and entry_date.
C21_EntryAtLastWindowBar ==
    sim.pc \in {"mega_loop", "mega_returned", "mega_raised"} =>
       \A k \in 1..Len(sim.trades) :
          LET t == sim.trades[k]
          IN /\ t.entry_idx = t.start_idx + MegaAnalysisDays - 1
             /\ t.entry_price = sim.data[t.entry_idx + 1].Close
             /\ t.entry_date = sim.data[t.entry_idx + 1].date

\* C25: simulating one (symbol, configuration) pair writes no state shared
\* with another pair: while mega_backtest_symbol runs, the pooled list
\* self.all_trades and the rest of the orchestrator's state stay as they
\* are, the list of trades it returns being its only effect.
C25_SimulationWritesNothingShared ==
    [][sim.pc \in {"mega_call", "mega_loop"} => UNCHANGED orch_vars]_vars

\* C28: a symbol whose simulation raises partway through its series leaves
\* none of its trades in the pooled list self.all_trades.
C28_FailedSymbolContributesNothing ==
    sim.pc = "mega_raised" => BySymbol(all_trades, sim.symbol) = <<>>

(***************************************************************************)
(* Claims on the loops of BacktestValidator and SignalBacktester           *)
(* (SpecPeriod).                                                           *)
(***************************************************************************)
PeriodRunning == sim.pc \in {"period_loop", "period_returned", "period_raised"}

\* C22: the exit bar of every trade lies exactly holding_days bars after the
\* bar that supplies its entry_price: exit_index = entry_index + holding_days.
C22_ExitHoldingDaysAfterEntry ==
    PeriodRunning =>
       \A k \in 1..Len(sim.trades) :
          sim.trades[k].exit_idx = sim.trades[k].entry_idx + sim.trades[k].holding_days

\* the start indices of range(10, len(data) - holding_days)
PeriodStarts == {i \in PeriodStart..Len(sim.data) : i < Len(sim.data) - sim.holding_days}

\* C27: in BacktestValidator.test_holding_period, on a series whose columns
\* are sound, a start index for which calculate_signal yields None is skipped
\* and the start indices after it are still evaluated: the loop ends only
\* when every start index of the range has been evaluated, and no trade
\* starts where the signal is None.
C27_NoneSkippedLoopContinues ==
    (variant = "validator" /\ sim.frame.fault = "none"
        /\ sim.pc \in {"period_returned", "period_raised"}) =>
       /\ Range(sim.evaluated) = PeriodStarts
       /\ \A k \in 1..Len(sim.trades) :
             calculate_signal(variant, sim.data, sim.trades[k].start_idx).ok

(***************************************************************************)
(* Claims on the volume ratio (SpecRatio).                                 *)
(***************************************************************************)
\* the window of the call and the ten bars before its start index
RatioSlice == iloc(sim.data, sim.start_idx, sim.start_idx + sim.analysis_days)
RatioBefore == iloc(sim.data, sim.start_idx - BaselineDays, sim.start_idx)

\* C24: volume_ratio is the mean volume of the window divided by the mean
\* volume of the 10 bars before the start index; when fewer than 10 bars
\* precede the start index, or their mean volume is zero, it is exactly 1.
C24_VolumeRatioNeutralDefault ==
    sim.pc = "ratio_returned" =>
       IF sim.start_idx >= BaselineDays /\ SumVolume(RatioBefore) > 0
       THEN sim.volume_ratio.num * Len(RatioSlice) * SumVolume(RatioBefore)
               = sim.volume_ratio.den * SumVolume(RatioSlice) * BaselineDays
       ELSE sim.volume_ratio.num = sim.volume_ratio.den
====
